---------------------------- MODULE Spec2Model ----------------------------
(***************************************************************************)
(* A model of the dynamic workflow orchestrator of                         *)
(* src/G1/workflow_orchestrator.py: the keyword classifier, the channel    *)
(* selector, the persona client with its context accumulator, the phase    *)
(* executor of process_requirement and the metrics requester.              *)
(*                                                                         *)
(* Texts are TLA+ strings; a float score x is held as the integer 10 * x   *)
(* (tenths), so 3.0 is 30 and 7.0 is 70.  Python's None is the empty       *)
(* sequence <<>> and a present optional value v is <<v>>.                  *)
(***************************************************************************)
EXTENDS Integers, Sequences, FiniteSets, TLC

VARIABLES
    pc,                 \* position of the operation in progress
    user_input,         \* process_requirement: the requirement text
    context,            \* process_requirement: the caller's context dict
    classification,     \* workflow_context.classification (<<>> is None)
    workflow_channel,   \* the selected channel (<<>> before selection)
    cm,                 \* a WorkflowContextManager handed to call_persona
    inflight,           \* the HTTP requests awaiting their replies, oldest first
    validation_result,  \* validate_and_route_request: <<the validator's
                        \* result>> (<<>> before the first one)
    n_calls,            \* SpecContext: call_persona calls made so far
    ok_calls,           \* ghost: <<persona, response text>> of each call that
                        \* returned success, in call order
    last_reply,         \* ghost: <<the HTTP reply the latest call_persona call
                        \* of SpecContext got>>, <<>> before the first
    exec_phase,         \* process_requirement: the phase being executed
    step,               \* index of the current step within exec_phase
    results,            \* the list of PersonaResult of the run
    metrics,            \* calculate_all_metrics: the dict being filled
    ret,                \* <<what process_requirement returned>>, <<>> while it runs
    execution_history,  \* DynamicWorkflowOrchestrator.execution_history
    run_count,          \* process_requirement calls made on the orchestrator
    attempted,          \* ghost: persona of each _call_persona_with_validation
                        \* call of the current run, in call order
    prior_ok,           \* ghost: <<persona, response text>> of the HTTP calls
                        \* of the current run that returned success
    seen,               \* ghost: [input, classification, channel] of every run
    step_requests,      \* ghost: [role, persona, reply] of each request of the
                        \* latest _call_persona_with_validation call, or of
                        \* the metrics phase, in the order sent; reply is
                        \* <<>> until call_persona returns, then <<its result>>
    reply_text,         \* SpecParse: the reply text handed to the parser
    parsed,             \* SpecParse: <<what _parse_metric_response returned>>
    team_config,        \* SpecTeams: the team_configuration dict of the workflow
    sdlc_pc,            \* where execute_complete_sdlc_workflow stands
    tasks,              \* the gathered execute_team_development coroutines,
                        \* one record for each, in the order of the teams
    phase_results,      \* <<the dict the development phase returned>>
    hub_context,        \* <<the dict the latest get_context_from_hub of the
                        \* workflow's own flow returned>>
    persona_result,     \* <<what the latest persona call of that flow returned>>
    sdlc_results,       \* the workflow_results dict of the workflow, held by
                        \* the keys of the dict of each phase recorded in it
                        \* and its final analysis
    sdlc_calls,         \* ghost: [role, persona] of each request the
                        \* workflow's own flow has sent, in the order sent
    comm_pc,            \* SpecComm: the call execute_communication_aware_workflow
                        \* is at, "idle" between runs
    comm_runs,          \* the number of workflows started on the orchestrator
    persona_index,      \* the place in workflow_personas of the persona at work
    persona_results,    \* the persona_results dict of the run
    previous_output,    \* <<>> (None) or <<the output of the persona before>>
    understanding,      \* <<the response to the understanding check>> while
                        \* it is still to be read
    comm_ret,           \* <<the dict the latest workflow returned>>
    bus_agents,         \* SpecAgents: the agents registered on the message
                        \* bus, each with the status and current_task of
                        \* its state
    message_history,    \* the message_history list of the bus
    frames,             \* the calls of send_message and process_message in
                        \* progress, the innermost last
    uuids,              \* the number of uuid4 calls made
    bus_returned,       \* ghost: [message, id] of each send_message call
                        \* that returned, in the order of the returns
    process_returned,   \* ghost: each process_message call that returned,
                        \* with what it returned and the state it left
    agent_orch          \* the AgentBasedWorkflowOrchestrator: where its
                        \* caller is, the calls made, the length of
                        \* message_history when the latest call began, the
                        \* length of execution_history and the calls of
                        \* process_user_requirement that raised

clientVars == <<cm, inflight, validation_result, n_calls, ok_calls,
               last_reply>>
parseVars == <<reply_text, parsed>>
sdlcVars == <<team_config, sdlc_pc, tasks, phase_results, hub_context,
              persona_result, sdlc_results, sdlc_calls>>
commVars == <<comm_pc, comm_runs, persona_index, persona_results,
              previous_output, understanding, comm_ret>>
agentVars == <<bus_agents, message_history, frames, uuids, bus_returned,
               process_returned, agent_orch>>
otherVars == <<sdlcVars, commVars, agentVars>>
runVars == <<exec_phase, step, results, metrics, ret, execution_history,
             run_count, attempted, prior_ok, seen, step_requests>>

vars == <<pc, user_input, context, classification, workflow_channel,
          cm, inflight, validation_result, n_calls, ok_calls, last_reply,
          exec_phase,
          step, results, metrics,
          ret, execution_history, run_count, attempted, prior_ok, seen,
          step_requests, reply_text, parsed,
          team_config, sdlc_pc, tasks, phase_results, hub_context,
          persona_result, sdlc_results, sdlc_calls,
          comm_pc, comm_runs, persona_index, persona_results,
          previous_output, understanding, comm_ret,
          bus_agents, message_history, frames, uuids, bus_returned,
          process_returned, agent_orch>>

nonAgentVars == <<pc, user_input, context, classification, workflow_channel,
                  clientVars, runVars, parseVars, sdlcVars, commVars>>

-----------------------------------------------------------------------------
(* Bounds of the model *)

\* the channel selector is tried on the scores 0.0, 0.5, ... MaxScoreSteps/2
MaxScoreSteps == 20
\* a requirement text is at most MaxWords words of Vocabulary
MaxWords == 2
\* SpecContext makes at most MaxCalls calls of call_persona
MaxCalls == 3
\* Spec makes at most MaxRuns calls of process_requirement on one orchestrator
MaxRuns == 2
\* SpecMetrics hands calculate_all_metrics lists of at most MaxResults results
MaxResults == 3
\* SpecParse hands the parser texts of at most MaxTokens tokens of ParseTokens
MaxTokens == 4

-----------------------------------------------------------------------------
(* Strings *)

RECURSIVE SeqToSet(_)
SeqToSet(s) == IF s = <<>> THEN {} ELSE {Head(s)} \cup SeqToSet(Tail(s))

UpperLetters == <<"A","B","C","D","E","F","G","H","I","J","K","L","M",
                  "N","O","P","Q","R","S","T","U","V","W","X","Y","Z">>
LowerLetters == <<"a","b","c","d","e","f","g","h","i","j","k","l","m",
                  "n","o","p","q","r","s","t","u","v","w","x","y","z">>

UpperSet == {UpperLetters[i] : i \in 1..Len(UpperLetters)}
LowerSet == {LowerLetters[i] : i \in 1..Len(LowerLetters)}
IndexOf(letters, c) == CHOOSE i \in 1..Len(letters) : letters[i] = c

\* str.lower() on one character
LowerChar(c) ==
    IF c \in UpperSet THEN LowerLetters[IndexOf(UpperLetters, c)] ELSE c

\* str.lower(): every character lowered, the text taken by halves
RECURSIVE lower(_)
lower(s) ==
    IF Len(s) = 0 THEN ""
    ELSE IF Len(s) = 1 THEN LowerChar(s)
    ELSE lower(SubSeq(s, 1, Len(s) \div 2))
             \o lower(SubSeq(s, Len(s) \div 2 + 1, Len(s)))

\* Python's `word in text` on strings: word occurs as a substring of text
In(word, text) ==
    \E i \in 1..(Len(text) - Len(word) + 1) :
        SubSeq(text, i, i + Len(word) - 1) = word

\* any(word in text for word in words)
AnyIn(words, text) == \E k \in 1..Len(words) : In(words[k], text)

\* " ".join(words)
RECURSIVE Join(_)
Join(ws) ==
    IF Len(ws) = 0 THEN ""
    ELSE IF Len(ws) = 1 THEN ws[1]
    ELSE ws[1] \o " " \o Join(Tail(ws))

-----------------------------------------------------------------------------
(* Enumerations *)

RequirementType ==
    {"bug_fix", "feature_request", "infrastructure", "compliance",
     "migration", "research"}
RequirementPriority == {"critical", "high", "medium", "low"}
WorkflowChannel == {"fast_track", "standard", "mega", "research"}

-----------------------------------------------------------------------------
(* Classifier *)

BugFixWords         == <<"fix", "bug", "error", "broken">>
ComplianceWords     == <<"compliance", "hipaa", "gdpr", "audit">>
MigrationWords      == <<"migrate", "migration", "upgrade">>
InfrastructureWords == <<"infrastructure", "deployment", "server">>
ResearchWords       == <<"research", "poc", "investigate">>

CriticalWords == <<"critical", "urgent", "emergency">>
HighWords     == <<"high", "important", "soon">>
LowWords      == <<"low", "nice", "future">>

SmallWords     == <<"simple", "quick", "small">>
LargeWords     == <<"complex", "large", "enterprise", "platform">>
VeryLargeWords == <<"microservices", "migration", "architecture">>
DomainWords    == <<"patient", "financial", "security">>

\* ReqTypeOf with the compliance test moved ahead of the bug-fix test
ReqTypeOf_ComplianceFirst(input_lower) ==
    IF AnyIn(ComplianceWords, input_lower) THEN "compliance"
    ELSE IF AnyIn(BugFixWords, input_lower) THEN "bug_fix"
    ELSE IF AnyIn(MigrationWords, input_lower) THEN "migration"
    ELSE IF AnyIn(InfrastructureWords, input_lower) THEN "infrastructure"
    ELSE IF AnyIn(ResearchWords, input_lower) THEN "research"
    ELSE "feature_request"

ReqTypeOf(input_lower) ==
    IF AnyIn(BugFixWords, input_lower) THEN "bug_fix"
    ELSE IF AnyIn(ComplianceWords, input_lower) THEN "compliance"
    ELSE IF AnyIn(MigrationWords, input_lower) THEN "migration"
    ELSE IF AnyIn(InfrastructureWords, input_lower) THEN "infrastructure"
    ELSE IF AnyIn(ResearchWords, input_lower) THEN "research"
    ELSE "feature_request"

\* PriorityOf with the low group tried before the high group
PriorityOf_LowFirst(input_lower) ==
    IF AnyIn(CriticalWords, input_lower) THEN "critical"
    ELSE IF AnyIn(LowWords, input_lower) THEN "low"
    ELSE IF AnyIn(HighWords, input_lower) THEN "high"
    ELSE "medium"

PriorityOf(input_lower) ==
    IF AnyIn(CriticalWords, input_lower) THEN "critical"
    ELSE IF AnyIn(HighWords, input_lower) THEN "high"
    ELSE IF AnyIn(LowWords, input_lower) THEN "low"
    ELSE "medium"

\* ComplexityOf with the large-size words tried before the small-size words
ComplexityOf_LargeFirst(input_lower) ==
    IF AnyIn(LargeWords, input_lower) THEN 80
    ELSE IF AnyIn(SmallWords, input_lower) THEN 20
    ELSE IF AnyIn(VeryLargeWords, input_lower) THEN 90
    ELSE 30

ComplexityOf(input_lower) ==
    IF AnyIn(SmallWords, input_lower) THEN 20
    ELSE IF AnyIn(LargeWords, input_lower) THEN 80
    ELSE IF AnyIn(VeryLargeWords, input_lower) THEN 90
    ELSE 30

\* RiskOf with the bug-fix score as the score of every remaining type
RiskOf_LowDefault(req_type, input_lower) ==
    IF req_type = "compliance" THEN 80
    ELSE IF AnyIn(DomainWords, input_lower) THEN 70
    ELSE 20

RiskOf(req_type, input_lower) ==
    IF req_type = "compliance" THEN 80
    ELSE IF AnyIn(DomainWords, input_lower) THEN 70
    ELSE IF req_type = "bug_fix" THEN 20
    ELSE 30

\* _classify_requirement taking the priority from the caller's context dict
\* when the dict has one
_classify_requirement_ContextPriority(input, wfc) ==
    LET input_lower == lower(input)
        req_type    == ReqTypeOf(input_lower)
        given       == {i \in 1..Len(wfc.metadata) :
                            wfc.metadata[i][1] = "priority"}
    IN  [type             |-> req_type,
         priority         |-> IF given # {}
                              THEN wfc.metadata[CHOOSE i \in given : TRUE][2]
                              ELSE PriorityOf(input_lower),
         complexity_score |-> ComplexityOf(input_lower),
         risk_score       |-> RiskOf(req_type, input_lower),
         estimated_effort |-> "auto-calculated",
         confidence       |-> 8]

\* _classify_requirement(user_input, context); the context is not read
_classify_requirement(input, wfc) ==
    LET input_lower == lower(input)
        req_type    == ReqTypeOf(input_lower)
    IN  [type             |-> req_type,
         priority         |-> PriorityOf(input_lower),
         complexity_score |-> ComplexityOf(input_lower),
         risk_score       |-> RiskOf(req_type, input_lower),
         estimated_effort |-> "auto-calculated",
         confidence       |-> 8]

-----------------------------------------------------------------------------
(* Channel selector *)

\* _select_workflow_channel with strict comparisons at the two thresholds
_select_workflow_channel_Strict(c, wfc) ==
    IF c.type = "research" THEN "research"
    ELSE IF c.complexity_score < 30 /\ c.risk_score < 30 /\ c.type = "bug_fix"
         THEN "fast_track"
    ELSE IF c.complexity_score > 70 \/ c.type \in {"migration", "infrastructure"}
         THEN "mega"
    ELSE "standard"

\* _select_workflow_channel without the risk test of the fast track
_select_workflow_channel_NoRisk(c, wfc) ==
    IF c.type = "research" THEN "research"
    ELSE IF c.complexity_score <= 30 /\ c.type = "bug_fix" THEN "fast_track"
    ELSE IF c.complexity_score >= 70 \/ c.type \in {"migration", "infrastructure"}
         THEN "mega"
    ELSE "standard"

\* _select_workflow_channel(classification, context); the context is not read
_select_workflow_channel(c, wfc) ==
    IF c.type = "research" THEN "research"
    ELSE IF c.complexity_score <= 30 /\ c.risk_score <= 30 /\ c.type = "bug_fix"
         THEN "fast_track"
    ELSE IF c.complexity_score >= 70 \/ c.type \in {"migration", "infrastructure"}
         THEN "mega"
    ELSE "standard"

\* the WorkflowContext the orchestrator builds for a run
WorkflowContext(input, metadata, cls) ==
    [user_input |-> input, metadata |-> metadata, classification |-> cls]

-----------------------------------------------------------------------------
(* Python dicts: a sequence of <<key, value>> pairs in insertion order, keys *)
(* unique.  Setting a key that exists replaces its value in place.           *)

DictKeys(d) == [i \in 1..Len(d) |-> d[i][1]]
DictHas(d, k) == \E i \in 1..Len(d) : d[i][1] = k
DictGet(d, k) == d[CHOOSE i \in 1..Len(d) : d[i][1] = k][2]
DictSet(d, k, v) ==
    IF DictHas(d, k)
    THEN [i \in 1..Len(d) |-> IF d[i][1] = k THEN <<k, v>> ELSE d[i]]
    ELSE Append(d, <<k, v>>)

-----------------------------------------------------------------------------
(* WorkflowContextManager.  Timestamps are left out.                        *)
(*                                                                          *)
(* An output is the "response" field of a reply's JSON body, a text when    *)
(* the gateway keeps to its interface.  A body whose field is null makes    *)
(* the output None, held as JsonNull, a value no text of the model equals.  *)

\* context_history keeps the first HistoryLimit characters of an output
HistoryLimit == 200
\* format_context_summary keeps the first SummaryLimit characters
SummaryLimit == 400

JsonNull == "<null>"

\* len(output) raises TypeError: None has no length
LenRaises(output) == output = JsonNull

NewContextManager ==
    [workflow_context |-> <<>>, persona_outputs |-> <<>>,
     context_history |-> <<>>]

\* add_persona_output assigning a new dict in place of setting one key
add_persona_output_NewDict(mgr, persona_name, output, metadata) ==
    [persona_outputs  |->
         <<<<persona_name, [output |-> output, metadata |-> metadata]>>>>,
     workflow_context |->
         DictSet(mgr.workflow_context, persona_name \o "_output", output),
     context_history  |->
         Append(mgr.context_history,
                [persona |-> persona_name,
                 output  |-> IF Len(output) > HistoryLimit
                             THEN SubSeq(output, 1, HistoryLimit) \o "..."
                             ELSE output])]

\* the manager add_persona_output leaves: the two dicts are set before the
\* history entry is built, so they stay set when len(output) raises there
add_persona_output(mgr, persona_name, output, metadata) ==
    [persona_outputs  |->
         DictSet(mgr.persona_outputs, persona_name,
                 [output |-> output, metadata |-> metadata]),
     workflow_context |->
         DictSet(mgr.workflow_context, persona_name \o "_output", output),
     context_history  |->
         IF LenRaises(output) THEN mgr.context_history
         ELSE Append(mgr.context_history,
                     [persona |-> persona_name,
                      output  |-> IF Len(output) > HistoryLimit
                                  THEN SubSeq(output, 1, HistoryLimit) \o "..."
                                  ELSE output])]

UpperChar(c) ==
    IF c \in LowerSet THEN UpperLetters[IndexOf(LowerLetters, c)] ELSE c

\* persona.upper().replace('-', ' ')
RECURSIVE Title(_)
Title(s) ==
    IF Len(s) = 0 THEN ""
    ELSE (IF SubSeq(s, 1, 1) = "-" THEN " " ELSE UpperChar(SubSeq(s, 1, 1)))
         \o Title(SubSeq(s, 2, Len(s)))

RECURSIVE SummaryBlocks(_)
SummaryBlocks(outputs) ==
    IF Len(outputs) = 0 THEN ""
    ELSE LET persona == outputs[1][1]
             output  == outputs[1][2].output
         IN  "\n--- " \o Title(persona) \o " ---\n"
             \o (IF Len(output) > SummaryLimit
                 THEN SubSeq(output, 1, SummaryLimit) \o "...\n"
                 ELSE output \o "\n")
             \o SummaryBlocks(Tail(outputs))

\* format_context_summary raises: an output it takes the length of has none
format_context_summary_raises(mgr) ==
    \E k \in 1..Len(mgr.persona_outputs) :
        LenRaises(mgr.persona_outputs[k][2].output)

format_context_summary(mgr, current_persona) ==
    IF Len(mgr.persona_outputs) = 0
    THEN "No previous persona outputs available."
    ELSE "=== WORKFLOW CONTEXT FOR " \o Title(current_persona) \o " ===\n\n"
         \o "Previous Persona Contributions:\n"
         \o SummaryBlocks(mgr.persona_outputs)
         \o "\n=== CURRENT CONTEXT FOR " \o Title(current_persona) \o " ===\n"

\* base_context.copy() with three keys set
get_enriched_context(mgr, current_persona, base_context) ==
    [workflow_history |-> mgr.persona_outputs,
     previous_outputs |-> DictKeys(mgr.persona_outputs),
     context_summary  |-> format_context_summary(mgr, current_persona)]
    @@ base_context

-----------------------------------------------------------------------------
(* PersonaAPIClient.call_persona, split at its one suspension point: the    *)
(* request it posts, and what it returns once the reply is in.  An optional *)
(* context manager is <<>> (None) or <<mgr>>.                               *)
(*                                                                          *)
(* A reply is [kind, response]: kind "200" with the JSON body's "response"  *)
(* field (<<>> when the body has none), kind "non200", or kind "exception"  *)
(* (the post, the timeout or the JSON decoding raised).  The error text of  *)
(* a failure is free text of the environment and is held as one value.      *)
(* The body's optional persona and execution_time fields are taken as       *)
(* absent, so the result has their defaults, and raw_result is the body,   *)
(* held by its response field.                                              *)

call_persona_request(persona_name, user_message, ctx, mgr) ==
    [persona |-> persona_name,
     query   |-> user_message,
     context |-> IF mgr # <<>>
                 THEN get_enriched_context(mgr[1], persona_name, ctx)
                 ELSE ctx]

\* call_persona raises before it posts anything: get_enriched_context is
\* called ahead of the try block
call_persona_raises(mgr) ==
    mgr # <<>> /\ format_context_summary_raises(mgr[1])

\* the try block of call_persona catches the TypeError of add_persona_output
Caught(reply, mgr) ==
    /\ reply.kind = "200"
    /\ mgr # <<>>
    /\ reply.response # <<>>
    /\ LenRaises(reply.response[1])

\* the dict call_persona returns when nothing is raised after the body is read
call_persona_result(persona_name, reply) ==
    IF reply.kind = "200"
    THEN [success        |-> TRUE,
          response       |-> IF reply.response = <<>> THEN ""
                             ELSE reply.response[1],
          persona        |-> persona_name,
          execution_time |-> 0,
          raw_result     |-> reply.response]
    ELSE [success |-> FALSE, error |-> "error", persona |-> persona_name]

\* the dict call_persona returns
call_persona_returns(persona_name, reply, mgr) ==
    IF Caught(reply, mgr)
    THEN [success |-> FALSE, error |-> "error", persona |-> persona_name]
    ELSE call_persona_result(persona_name, reply)

\* the context manager after call_persona returned
call_persona_manager(persona_name, reply, mgr) ==
    IF reply.kind = "200" /\ mgr # <<>>
    THEN <<add_persona_output(mgr[1], persona_name,
               call_persona_result(persona_name, reply).response,
               [execution_time |-> 0])>>
    ELSE mgr

Reply200(text) == [kind |-> "200", response |-> <<text>>]
Reply200NoField == [kind |-> "200", response |-> <<>>]
ReplyNon200 == [kind |-> "non200", response |-> <<>>]
ReplyException == [kind |-> "exception", response |-> <<>>]

\* an operation that awaits call_persona runs nothing more until the reply is
\* in: it is suspended while a request of its own is out
NeverSuspended == FALSE

Suspended == inflight # <<>>

\* session.post: the request joins the requests awaiting a reply
Post(request) == inflight' = Append(inflight, request)

\* the reply to the oldest request is in
Replied == inflight' = Tail(inflight)

ClientIdle ==
    /\ cm = <<>>
    /\ inflight = <<>>
    /\ validation_result = <<>>
    /\ n_calls = 0
    /\ ok_calls = <<>>
    /\ last_reply = <<>>

RunIdle ==
    /\ exec_phase = ""
    /\ step = 0
    /\ results = <<>>
    /\ metrics = <<>>
    /\ ret = <<>>
    /\ execution_history = <<>>
    /\ run_count = 0
    /\ attempted = <<>>
    /\ prior_ok = {}
    /\ seen = {}
    /\ step_requests = <<>>

SdlcIdle ==
    /\ team_config = <<>>
    /\ sdlc_pc = "idle"
    /\ tasks = <<>>
    /\ phase_results = <<>>
    /\ hub_context = <<>>
    /\ persona_result = <<>>
    /\ sdlc_results = <<>>
    /\ sdlc_calls = <<>>

\* no workflow of a CommunicationAwareOrchestrator has run
CommIdle ==
    /\ comm_pc = "idle"
    /\ comm_runs = 0
    /\ persona_index = 0
    /\ persona_results = <<>>
    /\ previous_output = <<>>
    /\ understanding = <<>>
    /\ comm_ret = <<>>

\* no AgentBasedWorkflowOrchestrator exists
AgentsIdle ==
    /\ bus_agents = <<>>
    /\ message_history = <<>>
    /\ frames = <<>>
    /\ uuids = 0
    /\ bus_returned = <<>>
    /\ process_returned = <<>>
    /\ agent_orch = <<>>

OthersIdle == SdlcIdle /\ CommIdle /\ AgentsIdle

ParseIdle ==
    /\ reply_text = ""
    /\ parsed = <<>>

-----------------------------------------------------------------------------
(* SpecContext: one context manager handed to a series of call_persona     *)
(* calls, as quick_context_test.py does                                    *)

RECURSIVE Repeat(_, _)
Repeat(s, n) ==
    IF n = 0 THEN ""
    ELSE LET half == Repeat(s, n \div 2)
         IN  half \o half \o (IF n % 2 = 1 THEN s ELSE "")

ContextPersonas == {"requirement-concierge", "program-manager", "developer"}

ContextReplies ==
    {Reply200("OAuth plan"), Reply200(Repeat("x", HistoryLimit + 1)),
     Reply200(Repeat("y", SummaryLimit + 1)), Reply200NoField,
     Reply200(JsonNull), ReplyNon200, ReplyException}

InitContext ==
    /\ pc = "client"
    /\ user_input = ""
    /\ context = <<>>
    /\ classification = <<>>
    /\ workflow_channel = <<>>
    /\ cm = <<NewContextManager>>
    /\ inflight = <<>>
    /\ validation_result = <<>>
    /\ n_calls = 0
    /\ ok_calls = <<>>
    /\ last_reply = <<>>
    /\ RunIdle
    /\ ParseIdle

    /\ OthersIdle
ContextSend ==
    /\ pc = "client"
    /\ ~Suspended
    /\ n_calls < MaxCalls
    /\ ~call_persona_raises(cm)
    /\ \E persona_name \in ContextPersonas :
          Post(call_persona_request(persona_name, "query",
                            [phase |-> "test"], cm))
    /\ n_calls' = n_calls + 1
    /\ UNCHANGED <<pc, user_input, context, classification, workflow_channel,
                   cm, validation_result, ok_calls, last_reply>>
    /\ UNCHANGED runVars
    /\ UNCHANGED parseVars

    /\ UNCHANGED otherVars
ContextReceive ==
    /\ pc = "client"
    /\ inflight # <<>>
    /\ \E reply \in ContextReplies :
          LET persona_name == inflight[1].persona
              result == call_persona_returns(persona_name, reply, cm)
          IN  /\ cm' = call_persona_manager(persona_name, reply, cm)
              /\ last_reply' = <<reply>>
              /\ ok_calls' = IF result.success
                             THEN Append(ok_calls, <<persona_name, result.response>>)
                             ELSE ok_calls
    /\ Replied
    /\ UNCHANGED <<pc, user_input, context, classification, workflow_channel,
                   validation_result, n_calls>>
    /\ UNCHANGED runVars
    /\ UNCHANGED parseVars

    /\ UNCHANGED otherVars
\* the caller's call of call_persona raises and the caller, which catches
\* nothing, ends
ContextRaise ==
    /\ pc = "client"
    /\ ~Suspended
    /\ n_calls < MaxCalls
    /\ call_persona_raises(cm)
    /\ pc' = "raised"
    /\ n_calls' = n_calls + 1
    /\ UNCHANGED <<user_input, context, classification, workflow_channel,
                   cm, inflight, validation_result, ok_calls, last_reply>>
    /\ UNCHANGED runVars
    /\ UNCHANGED parseVars
    /\ UNCHANGED otherVars

NextContext == ContextSend \/ ContextReceive \/ ContextRaise

SpecContext == InitContext /\ [][NextContext]_vars

-----------------------------------------------------------------------------
(* SpecSelect: the channel selector on every classification of a grid *)

ScoreVals == {5 * k : k \in 0..MaxScoreSteps}

Classifications ==
    [type : RequirementType, priority : {"medium"},
     complexity_score : ScoreVals, risk_score : ScoreVals,
     estimated_effort : {"auto-calculated"}, confidence : {8}]

InitSelect ==
    /\ pc = "select"
    /\ user_input = ""
    /\ context = <<>>
    /\ classification \in {<<c>> : c \in Classifications}
    /\ workflow_channel = <<>>
    /\ ClientIdle
    /\ RunIdle
    /\ ParseIdle

    /\ OthersIdle
SelectChannel ==
    /\ pc = "select"
    /\ workflow_channel' =
          <<_select_workflow_channel(classification[1],
                WorkflowContext(user_input, context, classification))>>
    /\ pc' = "selected"
    /\ UNCHANGED <<user_input, context, classification>>
    /\ UNCHANGED clientVars
    /\ UNCHANGED runVars
    /\ UNCHANGED parseVars

    /\ UNCHANGED otherVars
NextSelect == SelectChannel

SpecSelect == InitSelect /\ [][NextSelect]_vars

-----------------------------------------------------------------------------
(* SpecClassify: the classifier, then the selector, on every text of at    *)
(* most MaxWords words of Vocabulary                                       *)

Vocabulary ==
    {"Fix", "bug", "prefix", "audit", "migration", "upgrade", "server",
     "research", "urgent", "high", "slow", "simple", "complex",
     "architecture", "patient", "add", "dashboard"}

RECURSIVE WordSeqs(_)
WordSeqs(n) ==
    IF n = 0 THEN {<<>>}
    ELSE LET shorter == WordSeqs(n - 1)
         IN  shorter \cup {Append(ws, w) : ws \in {s \in shorter : Len(s) = n - 1},
                                          w \in Vocabulary}

\* the requirements of the test cases of integration_tests.py and of the
\* scenarios of main() whose names start with a channel: <<channel, input>>
SampleRequirements ==
    <<<<"fast_track",
        "Fix authentication timeout issue in user login flow">>,
      <<"standard",
        "Implement user dashboard with real-time notifications and preference settings">>,
      <<"mega",
        "Migrate legacy monolithic application to microservices architecture with event-driven communication">>,
      <<"research",
        "Research and prototype machine learning recommendation engine using collaborative filtering">>,
      <<"standard",
        "Set up production-ready Kubernetes cluster with monitoring, logging, and auto-scaling">>,
      <<"fast_track",
        "Fix mobile checkout button not responding to taps">>,
      <<"standard",
        "Add user preference dashboard with notification settings">>,
      <<"mega",
        "Migrate monolithic platform to microservices with event-driven architecture across 12 services">>>>

Texts ==
    {Join(ws) : ws \in WordSeqs(MaxWords)}
        \cup {SampleRequirements[k][2] : k \in 1..Len(SampleRequirements)}

InitClassify ==
    /\ pc = "classify"
    /\ user_input \in Texts
    /\ context = <<>>
    /\ classification = <<>>
    /\ workflow_channel = <<>>
    /\ ClientIdle
    /\ RunIdle
    /\ ParseIdle

    /\ OthersIdle
Classify ==
    /\ pc = "classify"
    /\ classification' =
          <<_classify_requirement(user_input,
                WorkflowContext(user_input, context, classification))>>
    /\ pc' = "select"
    /\ UNCHANGED <<user_input, context, workflow_channel>>
    /\ UNCHANGED clientVars
    /\ UNCHANGED runVars
    /\ UNCHANGED parseVars

    /\ UNCHANGED otherVars
NextClassify == Classify \/ SelectChannel

SpecClassify == InitClassify /\ [][NextClassify]_vars

-----------------------------------------------------------------------------
(* MetricsCalculator._parse_metric_response.  A float is held exactly as    *)
(* [num, den] (num/den, den a power of ten, no common factor ten); the      *)
(* calculated_at timestamp is left out.                                     *)

Digits == <<"0", "1", "2", "3", "4", "5", "6", "7", "8", "9">>
IsDigit(c) == \E i \in 1..Len(Digits) : Digits[i] = c
DigitVal(c) == (CHOOSE i \in 1..Len(Digits) : Digits[i] = c) - 1
\* the characters of the class [:\s]
IsSeparator(c) == c \in {":", " ", "\t", "\n", "\r", "\f"}

CharAt(s, i) == SubSeq(s, i, i)

\* the length of the longest run of characters of a class starting at s[i]
RECURSIVE DigitRun(_, _)
DigitRun(s, i) ==
    IF i <= Len(s) /\ IsDigit(CharAt(s, i)) THEN 1 + DigitRun(s, i + 1) ELSE 0
RECURSIVE SeparatorRun(_, _)
SeparatorRun(s, i) ==
    IF i <= Len(s) /\ IsSeparator(CharAt(s, i))
    THEN 1 + SeparatorRun(s, i + 1) ELSE 0

RECURSIVE DigitsValue(_)
DigitsValue(s) ==
    IF Len(s) = 0 THEN 0
    ELSE 10 * DigitsValue(SubSeq(s, 1, Len(s) - 1)) + DigitVal(CharAt(s, Len(s)))

RECURSIVE Pow10(_)
Pow10(n) == IF n = 0 THEN 1 ELSE 10 * Pow10(n - 1)

RECURSIVE Normalise(_, _)
Normalise(num, den) ==
    IF den > 1 /\ num % 10 = 0 THEN Normalise(num \div 10, den \div 10)
    ELSE [num |-> num, den |-> den]

\* float(text) for a text matching [0-9]+\.?[0-9]*
Float(text) ==
    LET whole == DigitRun(text, 1)
        frac  == IF whole < Len(text) THEN Len(text) - whole - 1 ELSE 0
    IN  Normalise(DigitsValue(SubSeq(text, 1, whole)) * Pow10(frac)
                    + DigitsValue(SubSeq(text, whole + 2, Len(text))),
                  Pow10(frac))

\* the keyword of (?:score|rating), any case, starts at s[i]: its length, or 0
KeywordAt(words, s, i) ==
    LET at(k) == /\ i + Len(words[k]) - 1 <= Len(s)
                 /\ lower(SubSeq(s, i, i + Len(words[k]) - 1)) = words[k]
    IN  IF \E k \in 1..Len(words) : at(k)
        THEN Len(words[CHOOSE k \in 1..Len(words) : at(k)])
        ELSE 0

\* group 1 of (?:w1|w2..)[:\s]+([0-9]+\.?[0-9]*) matched at s[i] (<<>>: no match)
GroupAt(words, s, i) ==
    LET kw    == KeywordAt(words, s, i)
        seps  == SeparatorRun(s, i + kw)
        start == i + kw + seps
        whole == DigitRun(s, start)
        dot   == IF start + whole <= Len(s) /\ CharAt(s, start + whole) = "."
                 THEN 1 ELSE 0
        frac  == IF dot = 1 THEN DigitRun(s, start + whole + 1) ELSE 0
    IN  IF kw > 0 /\ seps > 0 /\ whole > 0
        THEN <<SubSeq(s, start, start + whole + dot + frac - 1)>>
        ELSE <<>>

\* re.search: group 1 of the leftmost match (<<>>: no match)
Search(words, s) ==
    IF \E i \in 1..Len(s) : GroupAt(words, s, i) # <<>>
    THEN GroupAt(words, s,
             CHOOSE i \in 1..Len(s) :
                 /\ GroupAt(words, s, i) # <<>>
                 /\ \A j \in 1..(i - 1) : GroupAt(words, s, j) = <<>>)
    ELSE <<>>

ScoreWords == <<"score", "rating">>

\* 5.0
DefaultScore == [num |-> 5, den |-> 1]
\* 10.0
ScoreCap == [num |-> 10, den |-> 1]

\* max(a, b) on floats
MinFloat_Max(a, b) == IF b.num * a.den < a.num * b.den THEN a ELSE b

\* min(a, b) on floats
MinFloat(a, b) == IF b.num * a.den < a.num * b.den THEN b ELSE a

Insights(response) ==
    LET text == lower(response)
    IN  (IF In("improvement", text)
         THEN <<"improvement_opportunities_identified">> ELSE <<>>)
        \o (IF In("excellent", text) \/ In("high", text)
            THEN <<"strong_performance_indicators">> ELSE <<>>)
        \o (IF In("concern", text) \/ In("risk", text)
            THEN <<"attention_required">> ELSE <<>>)

\* _parse_metric_response without the min(score, 10.0)
_parse_metric_response_NoCap(response, metric_type) ==
    LET score_match == Search(ScoreWords, response)
    IN  [score       |-> IF score_match # <<>> THEN Float(score_match[1])
                         ELSE DefaultScore,
         assessment  |-> IF Len(response) > HistoryLimit
                         THEN SubSeq(response, 1, HistoryLimit) \o "..."
                         ELSE response,
         insights    |-> Insights(response),
         metric_type |-> metric_type]

_parse_metric_response(response, metric_type) ==
    LET score_match == Search(ScoreWords, response)
        score == IF score_match # <<>> THEN Float(score_match[1])
                 ELSE DefaultScore
    IN  [score       |-> MinFloat(score, ScoreCap),
         assessment  |-> IF Len(response) > HistoryLimit
                         THEN SubSeq(response, 1, HistoryLimit) \o "..."
                         ELSE response,
         insights    |-> Insights(response),
         metric_type |-> metric_type]

-----------------------------------------------------------------------------
(* MetricsCalculator.calculate_all_metrics: four call_persona calls in a    *)
(* row, none with a context manager                                         *)

MetricTypes == <<"functionality", "performance", "stability", "scalability">>

MetricPersona(metric_type) == metric_type \o "_metrics"

\* the classification as _call_persona_with_validation and the metrics
\* summary serialise it
ClassificationDict(cls) ==
    IF cls = <<>>
    THEN [type |-> "unknown", priority |-> "unknown",
          complexity_score |-> 0, risk_score |-> 0]
    ELSE [type |-> cls[1].type, priority |-> cls[1].priority,
          complexity_score |-> cls[1].complexity_score,
          risk_score |-> cls[1].risk_score]

\* the classification with all its six fields, as the metrics summary and
\* the returned dict serialise it
ClassificationSummary(cls) ==
    (IF cls = <<>>
     THEN [estimated_effort |-> "unknown", confidence |-> 0]
     ELSE [estimated_effort |-> cls[1].estimated_effort,
           confidence |-> cls[1].confidence])
    @@ ClassificationDict(cls)

\* the summary of the run the four prompts carry
ResultsSummary(workflow_id, input, cls, workflow_results) ==
    [workflow_id    |-> workflow_id,
     requirement    |-> input,
     classification |-> ClassificationSummary(cls),
     results        |-> [i \in 1..Len(workflow_results) |->
                            [persona     |-> workflow_results[i].persona_name,
                             success     |-> workflow_results[i].success,
                             confidence  |-> workflow_results[i].confidence,
                             key_outputs |-> workflow_results[i].output_data]]]

MetricRequest(metric_type, summary) ==
    call_persona_request(MetricPersona(metric_type),
        [prompt  |-> "Calculate " \o metric_type
                     \o " metrics for this workflow execution:",
         summary |-> summary],
        [metric_type |-> metric_type, workflow_id |-> summary.workflow_id],
        <<>>)

\* the metrics dict after the reply of one metric persona
MetricsAfter(dict, metric_type, reply) ==
    LET result == call_persona_result(MetricPersona(metric_type), reply)
    IN  IF result.success
        THEN DictSet(dict, metric_type,
                     _parse_metric_response(result.response, metric_type))
        ELSE dict

-----------------------------------------------------------------------------
(* DynamicWorkflowOrchestrator: the steps of each phase                    *)

\* a step's message is held by its opening words, which the requirement text
\* follows; the fixed instructions after it are left out
Step(persona, message, phase) ==
    [persona |-> persona, message |-> message, phase |-> phase]

AnalysisSteps == <<Step("requirement_concierge", "", "requirement_analysis")>>

FastTrackSteps ==
    <<Step("developer", "Quick technical assessment for: ",
           "fast_track_development"),
      Step("tester", "Quick test strategy for: ", "fast_track_testing")>>

StandardSteps ==
    <<Step("risk_assessor", "Risk assessment for: ", "risk_assessment"),
      Step("team_manager", "Team capacity and resource assessment for: ",
           "team_management"),
      Step("developer", "Technical implementation plan for: ", "development"),
      Step("tester", "Comprehensive test strategy for: ", "testing"),
      Step("operations", "Deployment and operational readiness for: ",
           "operations")>>

\* the mega workflow without its two steps of coordination
MegaSteps_StandardOnly == StandardSteps

MegaSteps ==
    <<Step("program_manager",
           "Program coordination and strategic alignment for: ",
           "program_management"),
      Step("mind_engine_coordinator", "Complex problem decomposition for: ",
           "mind_engine")>>
    \o StandardSteps

ResearchSteps ==
    <<Step("developer", "Technical research and feasibility analysis for: ",
           "research_development"),
      Step("mind_engine_coordinator", "Research methodology and approach for: ",
           "research_methodology")>>

TestingSteps ==
    <<Step("tester", "Comprehensive testing strategy for: ",
           "quality_assurance")>>

DeploymentSteps ==
    <<Step("infrastructure_engineer",
           "Infrastructure setup and deployment for: ",
           "infrastructure_automation"),
      Step("release_engineer",
           "Release engineering and CI/CD automation for: ",
           "cicd_automation")>>

MonitoringSteps ==
    <<Step("devops_specialist", "Monitoring and operational validation for: ",
           "monitoring_operations")>>

\* _execute_workflow_with_phases: the core workflow of a channel
CoreSteps(channel) ==
    IF channel = "fast_track" THEN FastTrackSteps
    ELSE IF channel = "standard" THEN StandardSteps
    ELSE IF channel = "mega" THEN MegaSteps
    ELSE ResearchSteps

PhaseSteps(phase, channel) ==
    CASE phase = "analysis"   -> AnalysisSteps
      [] phase = "core"       -> CoreSteps(channel[1])
      [] phase = "testing"    -> TestingSteps
      [] phase = "deployment" -> DeploymentSteps
      [] phase = "monitoring" -> MonitoringSteps

\* deployment comes straight after the core workflow
NextPhase_SkipTesting(phase) ==
    CASE phase = "analysis"   -> "core"
      [] phase = "core"       -> "deployment"
      [] phase = "testing"    -> "deployment"
      [] phase = "deployment" -> "monitoring"
      [] phase = "monitoring" -> "metrics"

\* the phase process_requirement enters when `phase` has returned
NextPhase(phase) ==
    CASE phase = "analysis"   -> "core"
      [] phase = "core"       -> "testing"
      [] phase = "testing"    -> "deployment"
      [] phase = "deployment" -> "monitoring"
      [] phase = "monitoring" -> "metrics"

\* every step of a run on `channel`, in call order
AllSteps(channel) ==
    AnalysisSteps \o CoreSteps(channel) \o TestingSteps \o DeploymentSteps
    \o MonitoringSteps

CurrentStep == PhaseSteps(exec_phase, workflow_channel)[step]

-----------------------------------------------------------------------------
(* _call_persona_with_validation and validate_and_route_request            *)

\* the request says nothing of the classification
ApiContext_Unclassified(workflow_id, phase, cls) ==
    [workflow_id |-> workflow_id, phase |-> phase,
     classification |-> ClassificationDict(<<>>)]

ApiContext(workflow_id, phase, cls) ==
    [workflow_id |-> workflow_id, phase |-> phase,
     classification |-> ClassificationDict(cls)]

\* the two prompts of validate_and_route_request are held by their parts: the
\* fixed text and the values it quotes
ValidationRequest(persona_name, message, api_context, mgr) ==
    call_persona_request("interface_validator",
        [prompt  |-> "Please validate this request format for persona communication:",
         target  |-> persona_name,
         message |-> message,
         context |-> api_context],
        [validation_target |-> persona_name, request_type |-> "validation"],
        mgr)

\* validation_result.get('response', '') is quoted in the prompt
RoutingRequest(persona_name, message, api_context, validation, mgr) ==
    call_persona_request("queue_manager",
        [prompt  |-> "Please route this validated request to the appropriate persona:",
         target  |-> persona_name,
         message |-> message,
         context |-> api_context,
         validation_result |-> IF "response" \in DOMAIN validation
                               THEN validation.response ELSE ""],
        [routing_target |-> persona_name, request_type |-> "routing"],
        mgr)

TargetRequest(persona_name, message, api_context, mgr) ==
    call_persona_request(persona_name, message, api_context, mgr)

\* the context manager _call_persona_with_validation hands to
\* validate_and_route_request: none, the parameter keeps its default None
PassedContextManager(mgr) == <<>>

\* the run's context manager after a call made through
\* _call_persona_with_validation got its reply
ManagerAfter(persona_name, reply, mgr) ==
    IF PassedContextManager(mgr) = <<>> THEN mgr
    ELSE call_persona_manager(persona_name, reply, PassedContextManager(mgr))

\* what _call_persona_with_validation does with the dict it got back:
\* [raised, error] when it raises, [raised, value] when it returns
PersonaResultOf(persona_name, phase, api_result) ==
    IF api_result.success
    THEN IF "persona_id" \in DOMAIN api_result
         THEN [raised |-> FALSE,
               value  |-> [persona_id   |-> api_result["persona_id"],
                           persona_name |-> persona_name,
                           success      |-> TRUE,
                           output_data  |-> [response |-> api_result.response],
                           confidence   |-> 8,
                           metadata     |-> [phase |-> phase, validated |-> TRUE],
                           validated    |-> TRUE]]
         ELSE [raised |-> TRUE, error |-> "'persona_id'"]
    ELSE [raised |-> FALSE,
          value  |-> [persona_id   |-> IF "persona_id" \in DOMAIN api_result
                                       THEN api_result["persona_id"]
                                       ELSE "unknown",
                      persona_name |-> persona_name,
                      success      |-> FALSE,
                      output_data  |-> [error |-> api_result.error],
                      confidence   |-> 0,
                      metadata     |-> [phase |-> phase, validated |-> FALSE],
                      validated    |-> FALSE]]

-----------------------------------------------------------------------------
(* Spec: process_requirement on one orchestrator, one HTTP request at a     *)
(* time.  The workflow id is the number of the run; times are left out.     *)
(* The lists the phases build and the caller extends are held as the one    *)
(* list `results`, which is what a return hands out.                        *)

\* requirements in the words of integration_tests.py, one for each channel,
\* each with (part of) the context dict the test hands over, and one of them
\* with no context (None) as well
BugFixText == "Fix authentication timeout"
FeatureText == "Implement user dashboard"
MigrationText == "Migrate legacy application"
ResearchText == "Research and prototype"

RunInputs ==
    {<<BugFixText, <<>> >>,
     <<BugFixText, << << <<"priority", "high">>, <<"type", "bug_fix">> >> >> >>,
     <<FeatureText, << << <<"priority", "medium">>, <<"team_size", 3>> >> >> >>,
     <<MigrationText, << << <<"priority", "high">>, <<"scope", "enterprise">> >> >> >>,
     <<ResearchText, << << <<"priority", "medium">>, <<"uncertainty", "high">> >> >> >>}

RunReplies == {Reply200("Score: 8"), ReplyNon200, ReplyException}

Init ==
    /\ pc = "idle"
    /\ user_input = ""
    /\ context = <<>>
    /\ classification = <<>>
    /\ workflow_channel = <<>>
    /\ ClientIdle
    /\ RunIdle
    /\ ParseIdle

    /\ OthersIdle
\* a request as the log of the current call holds it
Request(role, persona) == [role |-> role, persona |-> persona, reply |-> <<>>]

\* the log once call_persona returned `result` for its latest request
WithReply(log, result) == [log EXCEPT ![Len(log)].reply = <<result>>]

\* process_requirement up to its first request: the classification
StartRun ==
    /\ pc = "idle"
    /\ run_count < MaxRuns
    /\ \E arg \in RunInputs :
          LET input == arg[1]
              \* if context is None: context = {}
              metadata == IF arg[2] = <<>> THEN <<>> ELSE arg[2][1]
              cls == _classify_requirement(input,
                         WorkflowContext(input, metadata, <<>>))
          IN  /\ user_input' = input
              /\ context' = metadata
              /\ classification' = <<cls>>
              /\ seen' = seen \cup {[input |-> input, classification |-> cls,
                                     channel |-> <<>>]}
    /\ run_count' = run_count + 1
    /\ cm' = <<NewContextManager>>
    /\ workflow_channel' = <<>>
    /\ exec_phase' = "analysis"
    /\ step' = 1
    /\ results' = <<>>
    /\ metrics' = <<>>
    /\ attempted' = <<>>
    /\ prior_ok' = {}
    /\ pc' = "validate"
    /\ ret' = <<>>
    /\ validation_result' = <<>>
    /\ step_requests' = <<>>
    /\ UNCHANGED <<inflight, n_calls, ok_calls, last_reply, execution_history>>
    /\ UNCHANGED parseVars

    /\ UNCHANGED otherVars
\* the message a step sends: the concierge gets the requirement as it is
StepMessage(st) == st.message \o user_input

Succeeded(persona_name, reply) ==
    IF reply.kind = "200"
    THEN {<<persona_name, call_persona_result(persona_name, reply).response>>}
    ELSE {}

\* the result goes to the front of the list
StepReturns_Prepend(result) ==
    /\ results' = <<result>> \o results
    /\ IF step < Len(PhaseSteps(exec_phase, workflow_channel))
       THEN /\ step' = step + 1
            /\ pc' = "validate"
            /\ UNCHANGED <<exec_phase, workflow_channel, seen>>
       ELSE /\ exec_phase' = NextPhase(exec_phase)
            /\ step' = 1
            /\ pc' = IF exec_phase = "monitoring" THEN "metrics" ELSE "validate"
            /\ IF exec_phase = "analysis"
               THEN LET channel == _select_workflow_channel(classification[1],
                                       WorkflowContext(user_input, context,
                                                       classification))
                    IN  /\ workflow_channel' = <<channel>>
                        /\ seen' = seen \cup
                               {[input |-> user_input,
                                 classification |-> classification[1],
                                 channel |-> <<channel>>]}
               ELSE UNCHANGED <<workflow_channel, seen>>
    /\ UNCHANGED <<ret, execution_history, metrics>>

\* the step is executed again instead
StepReturns_Retry(result) ==
    /\ pc' = "validate"
    /\ UNCHANGED <<results, step, exec_phase, workflow_channel, seen, ret,
                   execution_history, metrics>>

\* _call_persona_with_validation returned `result` for the current step: the
\* result is appended and the run moves to its next step, phase or the metrics
StepReturns(result) ==
    /\ results' = Append(results, result)
    /\ IF step < Len(PhaseSteps(exec_phase, workflow_channel))
       THEN /\ step' = step + 1
            /\ pc' = "validate"
            /\ UNCHANGED <<exec_phase, workflow_channel, seen>>
       ELSE /\ exec_phase' = NextPhase(exec_phase)
            /\ step' = 1
            /\ pc' = IF exec_phase = "monitoring" THEN "metrics" ELSE "validate"
            /\ IF exec_phase = "analysis"
               THEN LET channel == _select_workflow_channel(classification[1],
                                       WorkflowContext(user_input, context,
                                                       classification))
                    IN  /\ workflow_channel' = <<channel>>
                        /\ seen' = seen \cup
                               {[input |-> user_input,
                                 classification |-> classification[1],
                                 channel |-> <<channel>>]}
               ELSE UNCHANGED <<workflow_channel, seen>>
    /\ UNCHANGED <<ret, execution_history, metrics>>

\* an except branch that records the failure dict it returns
RunFails_Recorded(error) ==
    /\ ret' = <<[workflow_id |-> run_count, input |-> user_input,
                 context |-> context, error |-> error, success |-> FALSE]>>
    /\ pc' = "idle"
    /\ execution_history' =
           Append(execution_history,
                  [workflow_id |-> run_count, input |-> user_input,
                   context |-> context, success |-> FALSE])
    /\ UNCHANGED <<exec_phase, step, results, metrics, workflow_channel,
                   seen>>

\* an exception reached process_requirement's handler
RunFails(error) ==
    /\ ret' = <<[workflow_id |-> run_count, input |-> user_input,
                 context |-> context, error |-> error, success |-> FALSE]>>
    /\ pc' = "idle"
    /\ UNCHANGED <<exec_phase, step, results, metrics, workflow_channel,
                   execution_history, seen>>

SendValidation ==
    /\ pc = "validate"
    /\ ~Suspended
    /\ Post(ValidationRequest(CurrentStep.persona,
                         StepMessage(CurrentStep),
                         ApiContext(run_count, CurrentStep.phase, classification),
                         PassedContextManager(cm)))
    /\ attempted' = Append(attempted, CurrentStep.persona)
    /\ step_requests' = <<Request("validation", "interface_validator")>>
    /\ UNCHANGED <<pc, user_input, context, classification, workflow_channel,
                   cm, validation_result, n_calls, ok_calls, last_reply, exec_phase, step,
                   results, metrics, ret, execution_history, run_count,
                   prior_ok, seen>>
    /\ UNCHANGED parseVars

    /\ UNCHANGED otherVars
\* the request goes on whatever the validator said
ValidationPassed_Always(validation) == TRUE

\* if not validation_result["success"]: return validation_result
ValidationPassed(validation) == validation.success

\* a failed validation is the step's result; a passed one goes on to routing
ReceiveValidation ==
    /\ pc = "validate"
    /\ inflight # <<>>
    /\ \E reply \in RunReplies :
          LET validation == call_persona_result("interface_validator", reply)
              returned == PersonaResultOf(CurrentStep.persona, CurrentStep.phase,
                                          validation)
          IN  /\ validation_result' = <<validation>>
              /\ step_requests' = WithReply(step_requests, validation)
              /\ cm' = ManagerAfter("interface_validator", reply, cm)
              /\ prior_ok' = prior_ok \cup Succeeded("interface_validator", reply)
              /\ IF ValidationPassed(validation)
                 THEN /\ pc' = "route"
                      /\ UNCHANGED <<workflow_channel, exec_phase, step, results,
                                     metrics, ret, execution_history, seen>>
                 ELSE StepReturns(returned.value)
    /\ Replied
    /\ UNCHANGED <<user_input, context, classification, n_calls, ok_calls, last_reply,
                   run_count, attempted>>
    /\ UNCHANGED parseVars

    /\ UNCHANGED otherVars
SendRouting ==
    /\ pc = "route"
    /\ ~Suspended
    /\ Post(RoutingRequest(CurrentStep.persona,
                         StepMessage(CurrentStep),
                         ApiContext(run_count, CurrentStep.phase, classification),
                         validation_result[1], PassedContextManager(cm)))
    /\ step_requests' = Append(step_requests, Request("routing", "queue_manager"))
    /\ UNCHANGED <<pc, user_input, context, classification, workflow_channel,
                   cm, validation_result, n_calls, ok_calls, last_reply, exec_phase, step,
                   results, metrics, ret, execution_history, run_count,
                   attempted, prior_ok, seen>>
    /\ UNCHANGED parseVars

    /\ UNCHANGED otherVars
\* the routing result is not read
ReceiveRouting ==
    /\ pc = "route"
    /\ inflight # <<>>
    /\ \E reply \in RunReplies :
          /\ cm' = ManagerAfter("queue_manager", reply, cm)
          /\ prior_ok' = prior_ok \cup Succeeded("queue_manager", reply)
          /\ step_requests' =
                 WithReply(step_requests,
                           call_persona_result("queue_manager", reply))
    /\ Replied
    /\ pc' = "target"
    /\ UNCHANGED <<user_input, context, classification, workflow_channel,
                   validation_result, n_calls, ok_calls, last_reply, exec_phase, step,
                   results, metrics, ret, execution_history, run_count,
                   attempted, seen>>
    /\ UNCHANGED parseVars

    /\ UNCHANGED otherVars
SendTarget ==
    /\ pc = "target"
    /\ ~Suspended
    /\ Post(TargetRequest(CurrentStep.persona, StepMessage(CurrentStep),
                         ApiContext(run_count, CurrentStep.phase, classification),
                         PassedContextManager(cm)))
    /\ step_requests' = Append(step_requests, Request("target", CurrentStep.persona))
    /\ UNCHANGED <<pc, user_input, context, classification, workflow_channel,
                   cm, validation_result, n_calls, ok_calls, last_reply, exec_phase, step,
                   results, metrics, ret, execution_history, run_count,
                   attempted, prior_ok, seen>>
    /\ UNCHANGED parseVars

    /\ UNCHANGED otherVars
ReceiveTarget ==
    /\ pc = "target"
    /\ inflight # <<>>
    /\ \E reply \in RunReplies :
          LET api_result == call_persona_result(CurrentStep.persona, reply)
              returned == PersonaResultOf(CurrentStep.persona, CurrentStep.phase,
                                          api_result)
          IN  /\ cm' = ManagerAfter(CurrentStep.persona, reply, cm)
              /\ step_requests' = WithReply(step_requests, api_result)
              /\ prior_ok' = prior_ok \cup Succeeded(CurrentStep.persona, reply)
              /\ IF returned.raised
                 THEN RunFails(returned.error)
                 ELSE StepReturns(returned.value)
    /\ Replied
    /\ UNCHANGED <<user_input, context, classification, validation_result,
                   n_calls, ok_calls, last_reply, run_count, attempted>>
    /\ UNCHANGED parseVars

    /\ UNCHANGED otherVars
SendMetric ==
    /\ pc = "metrics"
    /\ ~Suspended
    /\ Post(MetricRequest(MetricTypes[step],
                         ResultsSummary(run_count, user_input, classification,
                                        results)))
    /\ step_requests' =
           LET request == Request("metric", MetricPersona(MetricTypes[step]))
           IN  IF step = 1 THEN <<request>> ELSE Append(step_requests, request)
    /\ UNCHANGED <<pc, user_input, context, classification, workflow_channel,
                   cm, validation_result, n_calls, ok_calls, last_reply, exec_phase, step,
                   results, metrics, ret, execution_history, run_count,
                   attempted, prior_ok, seen>>
    /\ UNCHANGED parseVars

    /\ UNCHANGED otherVars
\* the dict process_requirement returns when nothing raised
RunResult(final_metrics) ==
    [workflow_id      |-> run_count,
     input            |-> user_input,
     context          |-> context,
     classification   |-> ClassificationSummary(classification),
     selected_channel |-> workflow_channel[1],
     results          |-> results,
     metrics          |-> final_metrics,
     success          |-> TRUE]

\* execution_history holds the returned dict itself; an entry is held here by
\* the fields that identify its run, the rest being in ret when it is returned
HistoryEntry(result) ==
    [workflow_id      |-> result.workflow_id,
     input            |-> result.input,
     context          |-> result.context,
     classification   |-> result.classification,
     selected_channel |-> result.selected_channel,
     success          |-> result.success]

\* after the fourth metric the run appends its result to the history and returns
ReceiveMetric ==
    /\ pc = "metrics"
    /\ inflight # <<>>
    /\ \E reply \in RunReplies :
          LET after == MetricsAfter(metrics, MetricTypes[step], reply)
          IN  /\ prior_ok' = prior_ok
                     \cup Succeeded(MetricPersona(MetricTypes[step]), reply)
              /\ metrics' = after
              /\ step_requests' =
                     WithReply(step_requests,
                               call_persona_result(MetricPersona(MetricTypes[step]),
                                                   reply))
              /\ IF step < Len(MetricTypes)
                 THEN /\ step' = step + 1
                      /\ UNCHANGED <<pc, ret, execution_history>>
                 ELSE /\ ret' = <<RunResult(after)>>
                      /\ execution_history' =
                             Append(execution_history, HistoryEntry(RunResult(after)))
                      /\ pc' = "idle"
                      /\ UNCHANGED step
    /\ Replied
    /\ UNCHANGED <<user_input, context, classification, workflow_channel,
                   cm, validation_result, n_calls, ok_calls, last_reply, exec_phase, results,
                   run_count, attempted, seen>>
    /\ UNCHANGED parseVars

    /\ UNCHANGED otherVars
Next ==
    \/ StartRun
    \/ SendValidation \/ ReceiveValidation
    \/ SendRouting \/ ReceiveRouting
    \/ SendTarget \/ ReceiveTarget
    \/ SendMetric \/ ReceiveMetric

Spec == Init /\ [][Next]_vars

-----------------------------------------------------------------------------
(* SpecMetrics: calculate_all_metrics on every results list of at most      *)
(* MaxResults entries, for every outcome of its four calls                  *)

SampleResults ==
    {PersonaResultOf("developer", "development",
         call_persona_result("developer", ReplyNon200)).value,
     PersonaResultOf("tester", "testing",
         [persona_id |-> "tester"]
         @@ call_persona_result("tester", Reply200("All tests pass"))).value}

RECURSIVE ResultLists(_)
ResultLists(n) ==
    IF n = 0 THEN {<<>>}
    ELSE LET shorter == ResultLists(n - 1)
         IN  shorter \cup {Append(l, r) : l \in {x \in shorter : Len(x) = n - 1},
                                         r \in SampleResults}

MetricReplies ==
    {Reply200("Score: 8"), Reply200("No concerns, high quality"),
     Reply200NoField, ReplyNon200, ReplyException}

InitMetrics ==
    /\ pc = "calculate"
    /\ user_input = FeatureText
    /\ context = <<>>
    /\ classification = <<_classify_requirement(FeatureText,
                              WorkflowContext(FeatureText, <<>>, <<>>))>>
    /\ workflow_channel = <<>>
    /\ ClientIdle
    /\ exec_phase = "metrics"
    /\ step = 1
    /\ results \in ResultLists(MaxResults)
    /\ metrics = <<>>
    /\ ret = <<>>
    /\ execution_history = <<>>
    /\ run_count = 1
    /\ attempted = <<>>
    /\ prior_ok = {}
    /\ seen = {}
    /\ step_requests = <<>>
    /\ ParseIdle

    /\ OthersIdle
CalculateSend ==
    /\ pc = "calculate"
    /\ ~Suspended
    /\ Post(MetricRequest(MetricTypes[step],
                         ResultsSummary(run_count, user_input, classification,
                                        results)))
    /\ UNCHANGED <<pc, user_input, context, classification, workflow_channel,
                   cm, validation_result, n_calls, ok_calls, last_reply>>
    /\ UNCHANGED runVars
    /\ UNCHANGED parseVars

    /\ UNCHANGED otherVars
\* after the fourth reply calculate_all_metrics returns the dict
CalculateReceive ==
    /\ pc = "calculate"
    /\ inflight # <<>>
    /\ \E reply \in MetricReplies :
          LET persona_name == MetricPersona(MetricTypes[step])
              after == MetricsAfter(metrics, MetricTypes[step], reply)
          IN  /\ metrics' = after
              /\ ok_calls' = ok_calls \o
                     (IF call_persona_result(persona_name, reply).success
                      THEN <<persona_name>> ELSE <<>>)
              /\ IF step < Len(MetricTypes)
                 THEN /\ step' = step + 1
                      /\ UNCHANGED <<pc, ret>>
                 ELSE /\ ret' = <<after>>
                      /\ pc' = "calculated"
                      /\ UNCHANGED step
    /\ Replied
    /\ UNCHANGED <<user_input, context, classification, workflow_channel,
                   cm, validation_result, n_calls, last_reply, exec_phase,
                   results, execution_history, run_count, attempted, prior_ok,
                   seen, step_requests>>
    /\ UNCHANGED parseVars

    /\ UNCHANGED otherVars
NextMetrics == CalculateSend \/ CalculateReceive

SpecMetrics == InitMetrics /\ [][NextMetrics]_vars

-----------------------------------------------------------------------------
(* SpecParse: _parse_metric_response on every text of at most MaxTokens     *)
(* tokens                                                                   *)

ParseTokens == {"score:", "Rating ", "score", ":", " ", "7.5", "12", "."}

RECURSIVE TokenTexts(_)
TokenTexts(n) ==
    IF n = 0 THEN {""}
    ELSE {t \o tok : t \in TokenTexts(n - 1), tok \in ParseTokens \cup {""}}

InitParse ==
    /\ pc = "parse"
    /\ user_input = ""
    /\ context = <<>>
    /\ classification = <<>>
    /\ workflow_channel = <<>>
    /\ ClientIdle
    /\ RunIdle
    /\ reply_text \in TokenTexts(MaxTokens)
    /\ parsed = <<>>

    /\ OthersIdle
Parse ==
    /\ pc = "parse"
    /\ parsed' = <<_parse_metric_response(reply_text, "functionality")>>
    /\ pc' = "parsed"
    /\ UNCHANGED <<user_input, context, classification, workflow_channel,
                   reply_text>>
    /\ UNCHANGED clientVars
    /\ UNCHANGED runVars

    /\ UNCHANGED otherVars
NextParse == Parse

SpecParse == InitParse /\ [][NextParse]_vars

-----------------------------------------------------------------------------
(* SpecTeams: CompleteSDLCOrchestrator, execute_complete_sdlc_workflow from  *)
(* its call to its return.  In the development phase the tasks of the teams *)
(* are                                                                      *)
(* coroutines gathered on one event loop: each runs from one await to the   *)
(* next without interruption and they interleave at the awaits, which are   *)
(* the calls of call_persona.                                               *)

\* at most MaxTeams teams are configured
MaxTeams == 2

TeamNames == <<"frontend", "backend", "platform">>

\* teams = team_config.get("teams", [...]): the teams when none are configured
DefaultTeams == <<"frontend", "backend", "platform">>

\* the team_configuration dicts: without a "teams" key, with the teams as a
\* dict from name to description as test_complete_sdlc_workflow has them, and
\* with the teams as a list of names, the form of the default
TeamConfigs ==
    {[teams |-> <<>>]}
    \cup {[teams |-> <<[kind  |-> form,
                        items |-> SubSeq(TeamNames, 1, k)]>>] :
             form \in {"dict", "list"}, k \in 1..MaxTeams}

\* for team in teams: a dict is iterated by its keys
ConfiguredTeams(config) ==
    IF config.teams = <<>> THEN DefaultTeams ELSE config.teams[1].items

\* what a team of the test configuration is described by
TeamDescription(team_name) == [team |-> team_name, size |-> 3]

\* team_config.get("teams", {}).get(team_name, {}): a list has no get
TeamResponsibilities(config, team_name) ==
    IF config.teams = <<>>
    THEN [raised |-> FALSE, value |-> <<>>]
    ELSE IF config.teams[1].kind = "dict"
    THEN [raised |-> FALSE,
          value  |-> IF team_name \in SeqToSet(config.teams[1].items)
                     THEN <<TeamDescription(team_name)>> ELSE <<>>]
    ELSE [raised |-> TRUE, error |-> "'list' object has no attribute 'get'"]

\* the requirement id store_requirement_in_hub returned
ReqId == "REQ_1"

KnowledgeHub == "central-knowledge-hub"

\* the context manager the calls of this orchestrator hand to call_persona:
\* none, self.context_manager is passed to no call
SdlcContextManager_Shared(mgr) == mgr

SdlcContextManager(mgr) == <<>>

\* the orchestrator's context manager after one of its calls got its reply
SdlcManagerAfter(persona_name, reply, mgr) ==
    IF SdlcContextManager(mgr) = <<>> THEN mgr
    ELSE call_persona_manager(persona_name, reply, SdlcContextManager(mgr))

\* the call of call_persona in get_context_from_hub
HubPullRequest(req_id, persona_name, context_scope, mgr) ==
    call_persona_request(KnowledgeHub,
        [prompt  |-> "Provide context",
         scope   |-> context_scope,
         persona |-> persona_name,
         requirement |-> req_id],
        [requirement_id |-> req_id, persona_type |-> persona_name,
         context_scope |-> context_scope, sdlc_phase |-> "active"],
        SdlcContextManager(mgr))

\* result.get("response", "")
ResponseOf(result) ==
    IF "response" \in DOMAIN result THEN result.response ELSE ""

\* the dict get_context_from_hub returns
HubContext(req_id, context_scope, result) ==
    [requirement_id  |-> req_id,
     persona_context |-> ResponseOf(result),
     source          |-> "knowledge_hub",
     context_scope   |-> context_scope]

\* the call of call_persona in log_persona_interpretation
HubLogRequest(req_id, persona_name, interpretation, mgr) ==
    call_persona_request(KnowledgeHub,
        [prompt         |-> "Log SDLC persona interpretation:",
         requirement    |-> req_id,
         persona        |-> persona_name,
         interpretation |-> interpretation],
        [requirement_id |-> req_id, persona |-> persona_name,
         phase |-> "sdlc_interpretation"],
        SdlcContextManager(mgr))

\* dev_context after its update
TeamDevContext(pulled, team_name, responsibilities) ==
    [team_name             |-> team_name,
     team_responsibilities |-> responsibilities,
     team_interfaces       |-> <<>>] @@ pulled

\* test_context after its update
TeamTestContext(pulled, team_name, implementation) ==
    [team_name       |-> team_name,
     implementation  |-> implementation,
     team_interfaces |-> <<>>] @@ pulled

DeveloperRequest(team_name, dev_context, mgr) ==
    call_persona_request("developer",
        "Implement " \o team_name \o " team components according to "
            \o "specifications and interface contracts.",
        dev_context, SdlcContextManager(mgr))

TesterRequest(team_name, test_context, mgr) ==
    call_persona_request("tester",
        "Test " \o team_name \o " team implementation and validate "
            \o "interface contracts.",
        test_context, SdlcContextManager(mgr))

\* a coroutine of execute_team_development as gather schedules it.  pc is the
\* call it is at; call is <<the request it awaits the reply to>>; context is
\* <<the context dict prepared for its next persona call>>, which the request
\* of that call then carries; holds_manager
\* says that its call in progress read the context manager and will write to
\* it; outcome is <<[raised, value or error]>> once it has ended; calls is a
\* ghost, [role, persona] of each request it has sent, in the order sent
NewTask(team_name) ==
    [team_name     |-> team_name,
     pc            |-> "pull_developer",
     call          |-> <<>>,
     context       |-> <<>>,
     dev_result    |-> <<>>,
     test_result   |-> <<>>,
     holds_manager |-> FALSE,
     outcome       |-> <<>>,
     calls         |-> <<>>]

TaskEnded(task) == task.outcome # <<>>

\* the persona the call a task is at goes to
TaskPersona(task) ==
    CASE task.pc \in {"pull_developer", "log_developer", "pull_tester",
                      "log_tester"} -> KnowledgeHub
      [] task.pc = "developer" -> "developer"
      [] task.pc = "tester"    -> "tester"

\* the request of the call a task is at
TaskRequest(task, mgr) ==
    CASE task.pc = "pull_developer" ->
             HubPullRequest(ReqId, "developer", "standard", mgr)
      [] task.pc = "developer" ->
             DeveloperRequest(task.team_name, task.context[1], mgr)
      [] task.pc = "log_developer" ->
             HubLogRequest(ReqId, "developer-" \o task.team_name,
                           ResponseOf(task.dev_result[1]), mgr)
      [] task.pc = "pull_tester" ->
             HubPullRequest(ReqId, "tester", "standard", mgr)
      [] task.pc = "tester" ->
             TesterRequest(task.team_name, task.context[1], mgr)
      [] task.pc = "log_tester" ->
             HubLogRequest(ReqId, "tester-" \o task.team_name,
                           ResponseOf(task.test_result[1]), mgr)

\* the dict execute_team_development returns
TeamResult(task) ==
    [development |-> task.dev_result[1],
     testing     |-> task.test_result[1],
     team_name   |-> task.team_name]

\* a task from the reply to its call up to its next call, its return or the
\* exception that ends it
TaskAfter(task, config, reply) ==
    LET result == call_persona_result(TaskPersona(task), reply)
        resumed == [task EXCEPT !.call = <<>>, !.holds_manager = FALSE]
    IN  CASE task.pc = "pull_developer" ->
                 LET responsibilities ==
                         TeamResponsibilities(config, task.team_name)
                 IN  IF responsibilities.raised
                     THEN [resumed EXCEPT
                              !.pc = "raised",
                              !.outcome = <<[raised |-> TRUE,
                                             error  |-> responsibilities.error]>>]
                     ELSE [resumed EXCEPT
                              !.pc = "developer",
                              !.context =
                                  <<TeamDevContext(
                                        HubContext(ReqId, "standard", result),
                                        task.team_name,
                                        responsibilities.value)>>]
          [] task.pc = "developer" ->
                 [resumed EXCEPT !.pc = "log_developer",
                                 !.dev_result = <<result>>]
          [] task.pc = "log_developer" ->
                 [resumed EXCEPT !.pc = "pull_tester"]
          [] task.pc = "pull_tester" ->
                 [resumed EXCEPT
                     !.pc = "tester",
                     !.context =
                         <<TeamTestContext(
                               HubContext(ReqId, "standard", result),
                               task.team_name,
                               ResponseOf(task.dev_result[1]))>>]
          [] task.pc = "tester" ->
                 [resumed EXCEPT !.pc = "log_tester",
                                 !.test_result = <<result>>]
          [] task.pc = "log_tester" ->
                 [resumed EXCEPT
                     !.pc = "done",
                     !.outcome =
                         <<[raised |-> FALSE,
                            value  |-> TeamResult(task)]>>]

\* asyncio.gather without return_exceptions: the first exception of a task
\* is raised to the caller
gather_FirstException(ts) ==
    IF \E i \in DOMAIN ts : ts[i].pc = "raised"
    THEN <<[raised |-> TRUE,
            error  |-> ts[CHOOSE i \in DOMAIN ts : ts[i].pc = "raised"]
                           .outcome[1].error]>>
    ELSE IF \A i \in DOMAIN ts : TaskEnded(ts[i])
    THEN <<[raised |-> FALSE,
            value  |-> [i \in DOMAIN ts |-> ts[i].outcome[1]]]>>
    ELSE <<>>

\* await asyncio.gather(*development_tasks, return_exceptions=True): <<>>
\* while a task is running, then the outcomes of the tasks in their order, an
\* exception standing where its task raised
gather(ts) ==
    IF \A i \in DOMAIN ts : TaskEnded(ts[i])
    THEN <<[raised |-> FALSE,
            value  |-> [i \in DOMAIN ts |-> ts[i].outcome[1]]]>>
    ELSE <<>>

\* the loop that fills phase_results, up to the n-th team
RECURSIVE DevelopmentResults(_, _, _)
DevelopmentResults(teams, team_results, n) ==
    IF n = 0 THEN <<>>
    ELSE DictSet(DevelopmentResults(teams, team_results, n - 1),
                 teams[n] \o "_team",
                 IF ~team_results[n].raised
                 THEN team_results[n].value
                 ELSE [error |-> team_results[n].error])

TeamReplies == {Reply200("done"), ReplyNon200}

\* the phases of execute_complete_sdlc_workflow in the order it awaits them
SdlcPhases_QaBeforeIntegration ==
    <<"requirements_analysis", "solution_architecture",
      "design_specification", "multi_team_coordination", "development",
      "quality_assurance", "integration", "deployment">>

SdlcPhases ==
    <<"requirements_analysis", "solution_architecture",
      "design_specification", "multi_team_coordination", "development",
      "integration", "quality_assurance", "deployment">>

\* list(self.sdlc_phases.keys())
SdlcPhaseKeys ==
    <<"requirements_analysis", "solution_architecture",
      "design_specification", "multi_team_coordination", "development",
      "quality_assurance", "deployment">>

\* the rounds of the phases that call one persona after the other: a pull of
\* the persona's context from the hub with a scope, the call to the persona
\* and the log of its response to the hub under a name.  at names the place
\* of the round in the flow, key is the key of the phase's dict the result is
\* stored under, carries is the key the pulled context is updated with
SdlcRounds ==
    <<[phase |-> "requirements_analysis", at |-> "requirement_concierge",
       key |-> "requirement_concierge", persona |-> "requirement-concierge",
       scope |-> "complete", logged_as |-> "requirement-concierge",
       carries |-> "",
       message |-> "Perform comprehensive requirements analysis for: "],
      [phase |-> "solution_architecture", at |-> "program_manager",
       key |-> "program_manager", persona |-> "program-manager",
       scope |-> "standard", logged_as |-> "program-manager",
       carries |-> "",
       message |-> "Create comprehensive project plan based on "
                       \o "requirements analysis."],
      [phase |-> "solution_architecture", at |-> "solution_architect",
       key |-> "solution_architect", persona |-> "solution-architect",
       scope |-> "complete", logged_as |-> "solution-architect",
       carries |-> "",
       message |-> "Define solution architecture, technology stack, and "
                       \o "platform decisions."],
      [phase |-> "solution_architecture", at |-> "technical_architect",
       key |-> "technical_architect", persona |-> "technical-architect",
       scope |-> "complete", logged_as |-> "technical-architect",
       carries |-> "",
       message |-> "Create detailed technical architecture and system "
                       \o "component design."],
      [phase |-> "design_specification", at |-> "api_designer",
       key |-> "api_designer", persona |-> "api-designer",
       scope |-> "complete", logged_as |-> "api-designer",
       carries |-> "",
       message |-> "Design comprehensive API contracts and interface "
                       \o "specifications."],
      [phase |-> "design_specification", at |-> "database_architect",
       key |-> "database_architect", persona |-> "database-architect",
       scope |-> "complete", logged_as |-> "database-architect",
       carries |-> "",
       message |-> "Design database architecture, data models, and "
                       \o "performance optimization."],
      [phase |-> "multi_team_coordination", at |-> "team_lead_coordinator",
       key |-> "team_lead_coordinator", persona |-> "team-lead-coordinator",
       scope |-> "complete", logged_as |-> "team-lead-coordinator",
       carries |-> "team_configuration",
       message |-> "Coordinate multi-team development with configuration: "],
      [phase |-> "multi_team_coordination", at |-> "integration_team_leader",
       key |-> "integration_team_leader",
       persona |-> "integration-team-leader",
       scope |-> "complete", logged_as |-> "integration-team-leader",
       carries |-> "team_configuration",
       message |-> "Plan cross-team integration and validate interface "
                       \o "contracts."],
      [phase |-> "integration", at |-> "integration",
       key |-> "integration_coordination",
       persona |-> "integration-team-leader",
       scope |-> "complete", logged_as |-> "integration-coordination",
       carries |-> "development_results",
       message |-> "Execute cross-team integration and validate end-to-end "
                       \o "workflows."],
      [phase |-> "quality_assurance", at |-> "quality_assurance",
       key |-> "quality_assurance",
       persona |-> "quality-assurance-specialist",
       scope |-> "complete", logged_as |-> "quality-assurance",
       carries |-> "integration_results",
       message |-> "Perform comprehensive quality assessment and "
                       \o "consistency analysis."],
      [phase |-> "deployment", at |-> "deployment",
       key |-> "devops_deployment", persona |-> "devops-specialist",
       scope |-> "complete", logged_as |-> "devops-deployment",
       carries |-> "qa_results",
       message |-> "Plan and execute deployment strategy with "
                       \o "comprehensive monitoring."]>>

\* the places of the flow a round is at: awaiting its pull, its persona call
\* and its log
PullAt(round) == round.at \o "_pull"
LogAt(round) == round.at \o "_log"
RoundPlaces(round) == {PullAt(round), round.at, LogAt(round)}

InRound == \E i \in DOMAIN SdlcRounds : sdlc_pc \in RoundPlaces(SdlcRounds[i])

\* the round the flow is in
CurrentRound ==
    SdlcRounds[CHOOSE i \in DOMAIN SdlcRounds :
                  sdlc_pc \in RoundPlaces(SdlcRounds[i])]

\* the rounds of a phase, in their order
RoundsOf(phase) == SelectSeq(SdlcRounds, LAMBDA round : round.phase = phase)

\* the place the flow is at when a phase is entered
PhaseStart(phase) ==
    IF phase = "development" THEN "development"
    ELSE PullAt(RoundsOf(phase)[1])

\* the place the flow is at once a phase has returned: the start of the phase
\* awaited next, or the final analysis
AfterPhase(order, phase) ==
    LET k == CHOOSE i \in DOMAIN order : order[i] = phase
    IN  IF k = Len(order) THEN "analysis" ELSE PhaseStart(order[k + 1])

\* the phase that is given the dict a phase returned
PhaseAfter(order, phase) ==
    LET k == CHOOSE i \in DOMAIN order : order[i] = phase
    IN  IF k = Len(order) THEN <<>> ELSE <<order[k + 1]>>

\* the place of the flow after the log of a round
AfterRound(order, round) ==
    LET rounds == RoundsOf(round.phase)
        k == CHOOSE i \in DOMAIN rounds : rounds[i] = round
    IN  IF k < Len(rounds) THEN PullAt(rounds[k + 1])
        ELSE AfterPhase(order, round.phase)

LastRoundOf(round) ==
    LET rounds == RoundsOf(round.phase) IN rounds[Len(rounds)] = round

\* the keys of the dict a phase of rounds returns
RoundKeys(phase) ==
    [i \in DOMAIN RoundsOf(phase) |-> RoundsOf(phase)[i].key]

\* the phase that follows reads the dict a phase returned: its round updates
\* the pulled context with it.  The dicts of the other phases are arguments
\* no code reads, and are held by their keys alone
ResultsRead(order, phase) ==
    /\ PhaseAfter(order, phase) # <<>>
    /\ PhaseAfter(order, phase)[1] # "development"
    /\ RoundsOf(PhaseAfter(order, phase)[1])[1].carries
           \notin {"", "team_configuration"}

\* the persona's context after its update
RoundContext(round) ==
    IF round.carries = "" THEN hub_context[1]
    ELSE IF round.carries = "team_configuration"
    THEN (round.carries :> team_config) @@ hub_context[1]
    ELSE (round.carries :> phase_results[1]) @@ hub_context[1]

\* the message of the call to the persona of a round
RoundMessage(round) ==
    IF round.at = "requirement_concierge" THEN round.message \o user_input
    ELSE IF round.at = "team_lead_coordinator"
    THEN [prompt |-> round.message, configuration |-> team_config]
    ELSE round.message

\* workflow_results["phase_results"][phase] = the dict the phase returned
Recorded(recorded, phase, keys) ==
    [recorded EXCEPT !.phase_results = Append(@, <<phase, keys>>)]

\* the request of the call the workflow's own flow is at
SdlcRequest ==
    CASE sdlc_pc = "store" ->
             call_persona_request(KnowledgeHub,
                 [prompt      |-> "Store this requirement for complete SDLC "
                                      \o "processing:",
                  requirement |-> user_input,
                  context     |-> context,
                  id          |-> ReqId],
                 [action |-> "store_sdlc_requirement",
                  requirement_id |-> ReqId, phases |-> SdlcPhaseKeys],
                 SdlcContextManager(cm))
      [] sdlc_pc = "analysis" ->
             call_persona_request(KnowledgeHub,
                 [prompt |-> "Analyze complete SDLC execution for requirement",
                  id     |-> ReqId,
                  phases |-> DictKeys(sdlc_results.phase_results)],
                 [requirement_id |-> ReqId,
                  sdlc_phases |-> DictKeys(sdlc_results.phase_results),
                  analysis_type |-> "complete_sdlc"],
                 SdlcContextManager(cm))
      [] InRound /\ sdlc_pc = PullAt(CurrentRound) ->
             HubPullRequest(ReqId, CurrentRound.persona, CurrentRound.scope, cm)
      [] InRound /\ sdlc_pc = CurrentRound.at ->
             call_persona_request(CurrentRound.persona,
                 RoundMessage(CurrentRound), RoundContext(CurrentRound),
                 SdlcContextManager(cm))
      [] InRound /\ sdlc_pc = LogAt(CurrentRound) ->
             HubLogRequest(ReqId, CurrentRound.logged_as,
                           ResponseOf(persona_result[1]), cm)

\* what a call of this orchestrator is: the pull of get_context_from_hub for
\* a persona, the log of log_persona_interpretation under a name, the call
\* to a workflow persona, or another call to the hub
CallOf(request) ==
    IF request.persona # KnowledgeHub
    THEN [role |-> "persona", persona |-> request.persona]
    ELSE IF "persona_type" \in DOMAIN request.context
    THEN [role |-> "pull", persona |-> request.context.persona_type]
    ELSE IF "phase" \in DOMAIN request.context
    THEN [role |-> "log", persona |-> request.context.persona]
    ELSE [role |-> "hub", persona |-> KnowledgeHub]

\* execute_complete_sdlc_workflow is called and is about to store the
\* requirement
InitTeams ==
    /\ pc = "sdlc"
    /\ user_input = ""
    /\ context = <<>>
    /\ classification = <<>>
    /\ workflow_channel = <<>>
    /\ cm = <<NewContextManager>>
    /\ inflight = <<>>
    /\ validation_result = <<>>
    /\ n_calls = 0
    /\ ok_calls = <<>>
    /\ last_reply = <<>>
    /\ RunIdle
    /\ ParseIdle
    /\ team_config \in TeamConfigs
    /\ sdlc_pc = "store"
    /\ tasks = <<>>
    /\ phase_results = <<>>
    /\ hub_context = <<>>
    /\ persona_result = <<>>
    /\ sdlc_results = [phase_results |-> <<>>, final_analysis |-> <<>>]
    /\ sdlc_calls = <<>>
    /\ CommIdle
    /\ AgentsIdle

\* a task that is not awaiting a reply makes its next call
TeamSend ==
    /\ sdlc_pc = "development"
    /\ \E i \in DOMAIN tasks :
          /\ ~TaskEnded(tasks[i])
          /\ tasks[i].call = <<>>
          /\ tasks' = [tasks EXCEPT ![i] =
                 [@ EXCEPT !.call = <<TaskRequest(tasks[i], cm)>>,
                           !.context = <<>>,
                           !.calls =
                               Append(@, CallOf(TaskRequest(tasks[i], cm))),
                           !.holds_manager = SdlcContextManager(cm) # <<>>]]
    /\ UNCHANGED <<pc, user_input, context, classification, workflow_channel>>
    /\ UNCHANGED clientVars
    /\ UNCHANGED runVars
    /\ UNCHANGED parseVars
    /\ UNCHANGED <<team_config, sdlc_pc, phase_results, hub_context,
                   persona_result, sdlc_results, sdlc_calls>>
    /\ UNCHANGED commVars
    /\ UNCHANGED agentVars

\* the reply to the call of a task is in and the task runs to its next await
TeamReceive ==
    /\ sdlc_pc = "development"
    /\ \E i \in DOMAIN tasks :
          /\ tasks[i].call # <<>>
          /\ \E reply \in TeamReplies :
                /\ tasks' = [tasks EXCEPT ![i] =
                                TaskAfter(tasks[i], team_config, reply)]
                /\ cm' = SdlcManagerAfter(TaskPersona(tasks[i]), reply, cm)
    /\ UNCHANGED <<pc, user_input, context, classification, workflow_channel>>
    /\ UNCHANGED <<inflight, validation_result, n_calls, ok_calls, last_reply>>
    /\ UNCHANGED runVars
    /\ UNCHANGED parseVars
    /\ UNCHANGED <<team_config, sdlc_pc, phase_results, hub_context,
                   persona_result, sdlc_results, sdlc_calls>>
    /\ UNCHANGED commVars
    /\ UNCHANGED agentVars

\* gather returns and the phase returns its dict, which the workflow records
\* and hands to the next phase, or gather raises and with it the phase and
\* the workflow
Gather ==
    /\ sdlc_pc = "development"
    /\ gather(tasks) # <<>>
    /\ IF gather(tasks)[1].raised
       THEN /\ sdlc_pc' = "failed"
            /\ UNCHANGED <<phase_results, sdlc_results>>
       ELSE LET development ==
                    DevelopmentResults(ConfiguredTeams(team_config),
                                       gather(tasks)[1].value, Len(tasks))
            IN  /\ sdlc_pc' = AfterPhase(SdlcPhases, "development")
                /\ phase_results' = <<development>>
                /\ sdlc_results' =
                       Recorded(sdlc_results, "development",
                                DictKeys(development))
    /\ UNCHANGED <<pc, user_input, context, classification, workflow_channel>>
    /\ UNCHANGED clientVars
    /\ UNCHANGED runVars
    /\ UNCHANGED parseVars
    /\ UNCHANGED <<team_config, tasks, hub_context, persona_result,
                   sdlc_calls>>
    /\ UNCHANGED commVars
    /\ UNCHANGED agentVars

\* the workflow's own flow makes its next call
SdlcSend ==
    /\ sdlc_pc = "store" \/ sdlc_pc = "analysis" \/ InRound
    /\ ~Suspended
    /\ Post(SdlcRequest)
    /\ sdlc_calls' = Append(sdlc_calls, CallOf(SdlcRequest))
    /\ UNCHANGED <<pc, user_input, context, classification, workflow_channel>>
    /\ UNCHANGED <<cm, validation_result, n_calls, ok_calls, last_reply>>
    /\ UNCHANGED runVars
    /\ UNCHANGED parseVars
    /\ UNCHANGED <<team_config, sdlc_pc, tasks, phase_results, hub_context,
                   persona_result, sdlc_results>>
    /\ UNCHANGED commVars
    /\ UNCHANGED agentVars

\* a round from the reply to its log to the next call of the flow: the next
\* round of the phase, or the phase returns its dict and the workflow records
\* it and enters the next phase
RoundReturns(round) ==
    IF ~LastRoundOf(round)
    THEN /\ sdlc_pc' = AfterRound(SdlcPhases, round)
         /\ UNCHANGED <<tasks, phase_results, sdlc_results>>
    ELSE /\ sdlc_pc' = AfterRound(SdlcPhases, round)
         /\ sdlc_results' =
                Recorded(sdlc_results, round.phase, RoundKeys(round.phase))
         /\ phase_results' =
                IF ResultsRead(SdlcPhases, round.phase)
                THEN <<DictSet(<<>>, round.key, persona_result[1])>>
                ELSE phase_results
         /\ tasks' =
                IF AfterRound(SdlcPhases, round) = "development"
                THEN [i \in 1..Len(ConfiguredTeams(team_config)) |->
                         NewTask(ConfiguredTeams(team_config)[i])]
                ELSE tasks

\* the workflow's own flow from the reply to its call to its next call or its
\* return
SdlcReceive ==
    /\ sdlc_pc = "store" \/ sdlc_pc = "analysis" \/ InRound
    /\ inflight # <<>>
    /\ \E reply \in TeamReplies :
          LET result == call_persona_result(inflight[1].persona, reply)
          IN  /\ cm' = SdlcManagerAfter(inflight[1].persona, reply, cm)
              /\ CASE sdlc_pc = "store" ->
                          /\ sdlc_pc' = PhaseStart(SdlcPhases[1])
                          /\ UNCHANGED <<tasks, phase_results, hub_context,
                                         persona_result, sdlc_results>>
                   [] sdlc_pc = "analysis" ->
                          /\ sdlc_results' =
                                 [sdlc_results EXCEPT !.final_analysis =
                                     <<[sdlc_analysis |-> ResponseOf(result),
                                        phases_completed |->
                                            Len(sdlc_results
                                                    .phase_results)]>>]
                          /\ sdlc_pc' = "returned"
                          /\ UNCHANGED <<tasks, phase_results, hub_context,
                                         persona_result>>
                   [] InRound /\ sdlc_pc = PullAt(CurrentRound) ->
                          /\ hub_context' =
                                 <<HubContext(ReqId, CurrentRound.scope,
                                              result)>>
                          /\ sdlc_pc' = CurrentRound.at
                          /\ UNCHANGED <<tasks, phase_results, persona_result,
                                         sdlc_results>>
                   [] InRound /\ sdlc_pc = CurrentRound.at ->
                          /\ persona_result' = <<result>>
                          /\ hub_context' = <<>>
                          /\ sdlc_pc' = LogAt(CurrentRound)
                          /\ UNCHANGED <<tasks, phase_results,
                                         sdlc_results>>
                   [] InRound /\ sdlc_pc = LogAt(CurrentRound) ->
                          /\ RoundReturns(CurrentRound)
                          /\ persona_result' = <<>>
                          /\ UNCHANGED hub_context
    /\ Replied
    /\ UNCHANGED <<pc, user_input, context, classification, workflow_channel>>
    /\ UNCHANGED <<validation_result, n_calls, ok_calls, last_reply>>
    /\ UNCHANGED runVars
    /\ UNCHANGED parseVars
    /\ UNCHANGED <<team_config, sdlc_calls>>
    /\ UNCHANGED commVars
    /\ UNCHANGED agentVars

NextTeams ==
    \/ TeamSend \/ TeamReceive
    \/ Gather
    \/ SdlcSend \/ SdlcReceive

SpecTeams == InitTeams /\ [][NextTeams]_vars

-----------------------------------------------------------------------------
(* SpecComm: CommunicationAwareOrchestrator, runs of                        *)
(* execute_communication_aware_workflow on one orchestrator, one after the  *)
(* other.  cm is self.context_manager, made once in __init__.  The          *)
(* requirement id is the number of the run.                                 *)

\* the orchestrator runs at most MaxWorkflows workflows
MaxWorkflows == 2

\* text.upper()
RECURSIVE upper(_)
upper(s) ==
    IF Len(s) = 0 THEN ""
    ELSE IF Len(s) = 1 THEN UpperChar(s)
    ELSE upper(SubSeq(s, 1, Len(s) \div 2))
             \o upper(SubSeq(s, Len(s) \div 2 + 1, Len(s)))

workflow_personas ==
    <<"requirement-concierge", "program-manager", "developer", "tester">>

VerificationService == "verification-service"

CollaborationManager == "collaborative-transition-manager"

\* the requirement of test_communication_aware_workflow, by its first words
CommRequirement == "Build a secure user authentication system"

\* the persona the loop is at, the one before it, and the result of its call
CurrentPersona == workflow_personas[persona_index]

PreviousPersona == workflow_personas[persona_index - 1]

PersonaOutput == ResponseOf(DictGet(persona_results, CurrentPersona))

\* the dict get_context_from_hub returns
PersonaContext(req_id, result) ==
    [requirement_id  |-> req_id,
     persona_context |-> ResponseOf(result),
     source          |-> "knowledge_hub"]

\* if persona in self.context_manager.persona_outputs: get_enriched_context
WorkflowContextFor(mgr, persona, persona_context) ==
    IF DictHas(mgr.persona_outputs, persona)
    THEN get_enriched_context(mgr, persona, persona_context)
    ELSE persona_context

\* the dict verify_understanding returns
VerificationResult(result) ==
    [verified              |-> In("VERIFIED", upper(ResponseOf(result))),
     clarification_needed  |-> In("CLARIFICATION", upper(ResponseOf(result))),
     verification_response |-> ResponseOf(result)]

\* a handoff whatever the verification returned
HandoffDue_Always(verification) == TRUE

\* if verification.get("verified", False):
HandoffDue(verification) == verification.verified

\* the dict facilitate_collaborative_handoff returns
HandoffResult(result) ==
    [handoff_complete   |-> In("READY", upper(ResponseOf(result))),
     collaboration_plan |-> ResponseOf(result)]

\* the request of the call the workflow is at; only the call of the persona
\* itself is given the context manager
CommRequest ==
    CASE comm_pc = "store" ->
             call_persona_request(KnowledgeHub,
                 [prompt |-> "Please store this original requirement",
                  requirement |-> CommRequirement, requirement_id |-> comm_runs],
                 [action |-> "store_requirement", requirement_id |-> comm_runs],
                 <<>>)
      [] comm_pc = "pull" ->
             call_persona_request(KnowledgeHub,
                 [prompt |-> "Please provide role-appropriate context",
                  persona |-> CurrentPersona, requirement_id |-> comm_runs],
                 [action |-> "get_context", requirement_id |-> comm_runs,
                  persona_type |-> CurrentPersona, context_scope |-> "standard"],
                 <<>>)
      [] comm_pc = "persona" ->
             call_persona_request(CurrentPersona, CommRequirement,
                 WorkflowContextFor(cm[1], CurrentPersona, hub_context[1]), cm)
      [] comm_pc = "log" ->
             call_persona_request(KnowledgeHub,
                 [prompt |-> "Please log the following persona interpretation:",
                  persona |-> CurrentPersona, requirement_id |-> comm_runs,
                  interpretation |-> PersonaOutput],
                 [action |-> "log_interpretation", requirement_id |-> comm_runs,
                  persona |-> CurrentPersona, interpretation |-> PersonaOutput],
                 <<>>)
      [] comm_pc = "understanding" ->
             call_persona_request(CurrentPersona,
                 [prompt |-> "Please paraphrase your understanding",
                  previous_persona |-> PreviousPersona,
                  previous_output |-> previous_output[1]],
                 [verification_check |-> TRUE], <<>>)
      [] comm_pc = "verify" ->
             call_persona_request(VerificationService,
                 [prompt |-> "Please verify understanding between personas:",
                  requirement_id |-> comm_runs,
                  upstream_persona |-> PreviousPersona,
                  downstream_persona |-> CurrentPersona,
                  upstream_output |-> previous_output[1],
                  downstream_understanding |-> understanding[1]],
                 [action |-> "verify_understanding", requirement_id |-> comm_runs,
                  upstream_persona |-> PreviousPersona,
                  downstream_persona |-> CurrentPersona],
                 <<>>)
      [] comm_pc = "handoff" ->
             call_persona_request(CollaborationManager,
                 [prompt |-> "Please orchestrate a collaborative handoff:",
                  requirement_id |-> comm_runs,
                  upstream_persona |-> PreviousPersona,
                  downstream_persona |-> CurrentPersona,
                  upstream_output |-> previous_output[1]],
                 [action |-> "facilitate_handoff", requirement_id |-> comm_runs,
                  upstream_persona |-> PreviousPersona,
                  downstream_persona |-> CurrentPersona],
                 <<>>)
      [] comm_pc = "analyze" ->
             call_persona_request(KnowledgeHub,
                 [prompt |-> "Please analyze communication quality",
                  requirement_id |-> comm_runs,
                  personas_processed |-> DictKeys(persona_results)],
                 [action |-> "analyze_communication_quality",
                  requirement_id |-> comm_runs,
                  personas_processed |-> DictKeys(persona_results)],
                 <<>>)

\* sum(1 for r in persona_results.values() if r.get(key, {}).get(flag, False))
CountWhere(dict, key, flag) ==
    Cardinality({i \in 1..Len(dict) :
                    /\ key \in DOMAIN dict[i][2]
                    /\ dict[i][2][key][flag]})

\* the dict execute_communication_aware_workflow returns
WorkflowResult(req_id, dict, analysis) ==
    [requirement_id         |-> req_id,
     original_requirement   |-> CommRequirement,
     persona_results        |-> dict,
     communication_analysis |->
         [communication_analysis |-> ResponseOf(analysis),
          personas_analyzed      |-> Len(dict),
          hub_analysis_available |-> TRUE],
     workflow_completed     |-> TRUE,
     personas_processed     |-> Len(dict),
     verifications_passed   |-> CountWhere(dict, "verification", "verified"),
     handoffs_completed     |-> CountWhere(dict, "handoff", "handoff_complete")]

CommReplies ==
    {Reply200("Verified, ready"), Reply200("Clarification needed"), ReplyNon200}

\* what the personas of a call may reply: the verification service and the
\* collaboration manager are the ones whose words are read
CommRepliesAt(at) ==
    IF at \in {"verify", "handoff"} THEN CommReplies
    ELSE {Reply200("Understood"), ReplyNon200}

\* the orchestrator as constructed
InitComm ==
    /\ pc = "comm"
    /\ user_input = ""
    /\ context = <<>>
    /\ classification = <<>>
    /\ workflow_channel = <<>>
    /\ cm = <<NewContextManager>>
    /\ inflight = <<>>
    /\ validation_result = <<>>
    /\ n_calls = 0
    /\ ok_calls = <<>>
    /\ last_reply = <<>>
    /\ RunIdle
    /\ ParseIdle
    /\ SdlcIdle
    /\ CommIdle
    /\ AgentsIdle

\* execute_communication_aware_workflow up to its first call
CommStart ==
    /\ comm_pc = "idle"
    /\ comm_runs < MaxWorkflows
    /\ comm_runs' = comm_runs + 1
    /\ comm_pc' = "store"
    /\ persona_index' = 1
    /\ persona_results' = <<>>
    /\ previous_output' = <<>>
    /\ understanding' = <<>>
    /\ comm_ret' = <<>>
    /\ hub_context' = <<>>
    /\ UNCHANGED <<pc, user_input, context, classification, workflow_channel>>
    /\ UNCHANGED clientVars
    /\ UNCHANGED runVars
    /\ UNCHANGED parseVars
    /\ UNCHANGED <<team_config, sdlc_pc, tasks, phase_results, persona_result,
                   sdlc_results, sdlc_calls>>
    /\ UNCHANGED agentVars

CommSend ==
    /\ comm_pc # "idle"
    /\ ~Suspended
    /\ Post(CommRequest)
    /\ UNCHANGED <<pc, user_input, context, classification, workflow_channel>>
    /\ UNCHANGED <<cm, validation_result, n_calls, ok_calls, last_reply>>
    /\ UNCHANGED runVars
    /\ UNCHANGED parseVars
    /\ UNCHANGED otherVars

\* the end of one round of the loop over the personas, `dict` being
\* persona_results as the round leaves it
NextPersona(dict) ==
    /\ persona_results' = dict
    /\ previous_output' = <<ResponseOf(DictGet(dict, CurrentPersona))>>
    /\ IF persona_index < Len(workflow_personas)
       THEN /\ persona_index' = persona_index + 1
            /\ comm_pc' = "pull"
       ELSE /\ comm_pc' = "analyze"
            /\ UNCHANGED persona_index
    \* understanding_check is not read again
    /\ understanding' = <<>>
    /\ UNCHANGED <<hub_context, comm_ret>>

\* the workflow from the reply to its call to its next call or its return
CommReceive ==
    /\ comm_pc # "idle"
    /\ inflight # <<>>
    /\ \E reply \in CommRepliesAt(comm_pc) :
          LET result == call_persona_result(inflight[1].persona, reply)
          IN  CASE comm_pc = "store" ->
                       /\ comm_pc' = "pull"
                       /\ UNCHANGED <<cm, persona_index, persona_results,
                                      previous_output, understanding, comm_ret,
                                      hub_context>>
                [] comm_pc = "pull" ->
                       /\ hub_context' = <<PersonaContext(comm_runs, result)>>
                       /\ comm_pc' = "persona"
                       /\ UNCHANGED <<cm, persona_index, persona_results,
                                      previous_output, understanding, comm_ret>>
                [] comm_pc = "persona" ->
                       /\ cm' = call_persona_manager(CurrentPersona, reply, cm)
                       /\ persona_results' =
                              DictSet(persona_results, CurrentPersona, result)
                       /\ comm_pc' = "log"
                       \* persona_context is not read again
                       /\ hub_context' = <<>>
                       /\ UNCHANGED <<persona_index, previous_output,
                                      understanding, comm_ret>>
                [] comm_pc = "log" ->
                       \* if previous_persona and previous_output:
                       IF persona_index > 1 /\ previous_output # <<>>
                          /\ previous_output[1] # ""
                       THEN /\ comm_pc' = "understanding"
                            /\ UNCHANGED <<cm, persona_index, persona_results,
                                           previous_output, understanding,
                                           comm_ret, hub_context>>
                       ELSE /\ NextPersona(persona_results)
                            /\ UNCHANGED cm
                [] comm_pc = "understanding" ->
                       /\ understanding' = <<ResponseOf(result)>>
                       /\ comm_pc' = "verify"
                       /\ UNCHANGED <<cm, persona_index, persona_results,
                                      previous_output, comm_ret, hub_context>>
                [] comm_pc = "verify" ->
                       LET verification == VerificationResult(result)
                           dict == DictSet(persona_results, CurrentPersona,
                                       [verification |-> verification]
                                       @@ DictGet(persona_results, CurrentPersona))
                       IN  IF HandoffDue(verification)
                           THEN /\ persona_results' = dict
                                /\ comm_pc' = "handoff"
                                /\ understanding' = <<>>
                                /\ UNCHANGED <<cm, persona_index,
                                               previous_output,
                                               comm_ret, hub_context>>
                           ELSE /\ NextPersona(dict)
                                /\ UNCHANGED cm
                [] comm_pc = "handoff" ->
                       /\ NextPersona(
                              DictSet(persona_results, CurrentPersona,
                                  [handoff |-> HandoffResult(result)]
                                  @@ DictGet(persona_results, CurrentPersona)))
                       /\ UNCHANGED cm
                [] comm_pc = "analyze" ->
                       /\ comm_ret' = <<WorkflowResult(comm_runs, persona_results,
                                                       result)>>
                       /\ comm_pc' = "idle"
                       /\ UNCHANGED <<cm, persona_index, persona_results,
                                      previous_output, understanding,
                                      hub_context>>
    /\ Replied
    /\ UNCHANGED <<pc, user_input, context, classification, workflow_channel>>
    /\ UNCHANGED <<validation_result, n_calls, ok_calls, last_reply>>
    /\ UNCHANGED comm_runs
    /\ UNCHANGED runVars
    /\ UNCHANGED parseVars
    /\ UNCHANGED <<team_config, sdlc_pc, tasks, phase_results, persona_result,
                   sdlc_results, sdlc_calls>>
    /\ UNCHANGED agentVars

NextComm == CommStart \/ CommSend \/ CommReceive

SpecComm == InitComm /\ [][NextComm]_vars

-----------------------------------------------------------------------------
(* SpecAgents: AgentBasedWorkflowOrchestrator, its MessageBus and its       *)
(* agents.  Everything runs on one task: bus.send_message awaits the        *)
(* recipient's process_message, whose handler awaits the bus again, so the  *)
(* calls in progress form a stack.  A uuid is held as <<n>>, n the number   *)
(* of the uuid4 call that made it, and the empty string id as <<>>.         *)
(* Timestamps, domains, templates and plans are left out of the payloads,   *)
(* which are held by the requirement texts the handlers read.               *)

\* the orchestrator and its bus are called at most MaxBusCalls times
MaxBusCalls == 2

AgentType ==
    {"requirement_concierge", "template_orchestrator", "mind_engine",
     "execution_agent", "quality_assurance", "deployment_agent"}

MessageType ==
    {"requirement_analysis", "template_selection", "solution_planning",
     "execution_request", "quality_report", "deployment_request",
     "feedback", "learning_update"}

\* the agents initialize_agents creates, each registering itself on the bus
InitializedAgents ==
    {"requirement_concierge", "template_orchestrator", "mind_engine",
     "execution_agent"}

\* the attributes an agent object has after IntelligentAgent.__init__
AgentAttributes_WithLearningData ==
    {"agent_type", "message_bus", "state", "knowledge_base",
     "decision_history", "learning_data"}

AgentAttributes ==
    {"agent_type", "message_bus", "state", "knowledge_base",
     "decision_history"}

\* an agent's state as constructed, by the fields process_message writes
NewAgentState == [status |-> "initialized", current_task |-> <<>>]

PyNone == "<None>"
EmptyId == <<>>

\* message.payload.get(key, default)
PayloadGet(payload, key, default) ==
    IF DictHas(payload, key) THEN DictGet(payload, key) ELSE default

\* _detect_domain says web_development for a text about dogs and a website;
\* its other answers change no text
IsDogWebsite(requirement) ==
    /\ AnyIn(<<"dog", "pet", "animal", "lover">>, lower(requirement))
    /\ AnyIn(<<"website", "web">>, lower(requirement))

_refine_requirement(requirement) ==
    IF IsDogWebsite(requirement) /\ In("dog lover", lower(requirement))
    THEN "Create a comprehensive dog lover website"
    ELSE requirement

\* the message type whose handler an agent class defines
HandledBy ==
    [requirement_concierge |-> "requirement_analysis",
     template_orchestrator |-> "template_selection",
     mind_engine           |-> "solution_planning",
     execution_agent       |-> "execution_request"]

\* hasattr(self, "handle_" + message.message_type.value)
HasHandler(agent_type, message_type) ==
    /\ agent_type \in DOMAIN HandledBy
    /\ HandledBy[agent_type] = message_type

\* the text a handler reads from the payload of its message
HandlerText(message) ==
    IF message.message_type = "requirement_analysis"
    THEN PayloadGet(message.payload, "requirement", "")
    ELSE PayloadGet(message.payload, "refined_requirement", PyNone)

\* the handler raises before it sends anything: requirement.lower() on None
\* in _detect_domain and in _me_simplify
HandlerRaises(message) ==
    /\ message.message_type \in {"requirement_analysis", "solution_planning"}
    /\ HandlerText(message) = PyNone

\* what the handler of each message type hands to self.send_message
Forwards_SkipPlanning(message) ==
    CASE message.message_type = "requirement_analysis" ->
             [recipient    |-> "template_orchestrator",
              message_type |-> "template_selection",
              payload |-> <<<<"refined_requirement",
                              _refine_requirement(HandlerText(message))>>,
                            <<"original_requirement",
                              HandlerText(message)>>>>]
      [] message.message_type = "template_selection" ->
             [recipient    |-> "execution_agent",
              message_type |-> "execution_request",
              payload |-> <<<<"refined_requirement",
                              HandlerText(message)>>>>]
      [] message.message_type = "solution_planning" ->
             [recipient    |-> "execution_agent",
              message_type |-> "execution_request",
              payload |-> <<<<"refined_requirement",
                              HandlerText(message)>>>>]
      [] message.message_type = "execution_request" ->
             [recipient    |-> "quality_assurance",
              message_type |-> "quality_report",
              payload      |-> <<>>]

Forwards(message) ==
    CASE message.message_type = "requirement_analysis" ->
             [recipient    |-> "template_orchestrator",
              message_type |-> "template_selection",
              payload |-> <<<<"refined_requirement",
                              _refine_requirement(HandlerText(message))>>,
                            <<"original_requirement",
                              HandlerText(message)>>>>]
      [] message.message_type = "template_selection" ->
             [recipient    |-> "mind_engine",
              message_type |-> "solution_planning",
              payload |-> <<<<"refined_requirement",
                              HandlerText(message)>>>>]
      [] message.message_type = "solution_planning" ->
             [recipient    |-> "execution_agent",
              message_type |-> "execution_request",
              payload |-> <<<<"refined_requirement",
                              HandlerText(message)>>>>]
      [] message.message_type = "execution_request" ->
             [recipient    |-> "quality_assurance",
              message_type |-> "quality_report",
              payload      |-> <<>>]

\* AgentMessage(id=str(uuid.uuid4()), ...)
AgentMessage(n, sender, recipient, message_type, payload) ==
    [id |-> <<n>>, sender |-> sender, recipient |-> recipient,
     message_type |-> message_type, payload |-> payload]

\* the response a handler returns
HandlerResponse(n, agent_type, message) ==
    AgentMessage(n, agent_type, message.sender, message.message_type,
                 <<<<"status", "completed">>>>)

\* _learn_from_interaction and get_agent_status read self.learning_data
ReadsLearningData == "learning_data" \in AgentAttributes

UserRequirements == {"Create a website for dog lovers", "Build a shop"}

\* the messages handed to bus.send_message from outside the agents: every
\* recipient with an empty payload, and the payloads the handlers read
DirectTypes ==
    {"requirement_analysis", "template_selection", "solution_planning",
     "execution_request", "quality_report", "feedback"}

DirectMessages ==
    {[recipient |-> r, message_type |-> t, payload |-> <<>>] :
        r \in AgentType, t \in DirectTypes}
    \cup {[recipient    |-> "requirement_concierge",
           message_type |-> "requirement_analysis",
           payload      |-> <<<<"requirement", PyNone>>>>],
          [recipient    |-> "template_orchestrator",
           message_type |-> "template_selection",
           payload      |-> <<<<"refined_requirement", "Build a shop">>>>],
          [recipient    |-> "mind_engine",
           message_type |-> "solution_planning",
           payload      |-> <<<<"refined_requirement", "Build a shop">>>>]}

\* a call in progress: bus.send_message or agent.process_message
BusFrame(message) ==
    [fn |-> "send_message", message |-> message, at |-> "start",
     response |-> <<>>, returns |-> <<>>, handler |-> "none"]

ProcessFrame(message) ==
    [fn |-> "process_message", message |-> message, at |-> "handler",
     response |-> <<>>, returns |-> <<>>, handler |-> "none"]

Top == frames[Len(frames)]
Pop == SubSeq(frames, 1, Len(frames) - 1)
Running(fn, at) ==
    /\ frames # <<>>
    /\ Top.fn = fn
    /\ Top.at = at

\* the orchestrator as constructed, with initialize_agents called or not
InitAgents ==
    /\ pc = "agents"
    /\ user_input = ""
    /\ context = <<>>
    /\ classification = <<>>
    /\ workflow_channel = <<>>
    /\ ClientIdle
    /\ RunIdle
    /\ ParseIdle
    /\ SdlcIdle
    /\ CommIdle
    /\ bus_agents \in {[a \in registered |-> NewAgentState] :
                          registered \in {{}, InitializedAgents}}
    /\ message_history = <<>>
    /\ frames = <<>>
    /\ uuids = 0
    /\ bus_returned = <<>>
    /\ process_returned = <<>>
    /\ agent_orch = [pc |-> "idle", calls |-> 0, mark |-> 0,
                     executions |-> 0, raised |-> 0]

\* process_user_requirement up to its await of the bus
UserRequirement ==
    /\ agent_orch.pc = "idle"
    /\ agent_orch.calls < MaxBusCalls
    /\ \E user_requirement \in UserRequirements :
          frames' = <<BusFrame(AgentMessage(uuids + 2,
                          "requirement_concierge", "requirement_concierge",
                          "requirement_analysis",
                          <<<<"requirement", user_requirement>>,
                            <<"execution_id", <<uuids + 1>>>>>>))>>
    /\ uuids' = uuids + 2
    /\ agent_orch' = [agent_orch EXCEPT !.pc = "user", !.calls = @ + 1,
                                        !.mark = Len(message_history)]
    /\ UNCHANGED <<bus_agents, message_history, bus_returned,
                   process_returned>>
    /\ UNCHANGED nonAgentVars

\* a caller outside the agents awaits bus.send_message
DirectSend ==
    /\ agent_orch.pc = "idle"
    /\ agent_orch.calls < MaxBusCalls
    /\ \E m \in DirectMessages :
          frames' = <<BusFrame(AgentMessage(uuids + 1, "deployment_agent",
                          m.recipient, m.message_type, m.payload))>>
    /\ uuids' = uuids + 1
    /\ agent_orch' = [agent_orch EXCEPT !.pc = "direct", !.calls = @ + 1,
                                        !.mark = Len(message_history)]
    /\ UNCHANGED <<bus_agents, message_history, bus_returned,
                   process_returned>>
    /\ UNCHANGED nonAgentVars

\* MessageBus.send_message up to its await of process_message, which runs up
\* to its handler, or to its return for a recipient that is not registered
BusDeliver ==
    /\ Running("send_message", "start")
    /\ message_history' = Append(message_history, Top.message)
    /\ IF Top.message.recipient \in DOMAIN bus_agents
       THEN /\ frames' = Append([frames EXCEPT ![Len(frames)].at = "await"],
                                ProcessFrame(Top.message))
            /\ bus_agents' =
                   [bus_agents EXCEPT ![Top.message.recipient] =
                       [status |-> "active",
                        current_task |->
                            <<"Processing " \o Top.message.message_type>>]]
       ELSE /\ frames' = [frames EXCEPT ![Len(frames)].at = "return",
                                        ![Len(frames)].returns = EmptyId]
            /\ UNCHANGED bus_agents
    /\ UNCHANGED <<uuids, bus_returned, process_returned, agent_orch>>
    /\ UNCHANGED nonAgentVars

\* process_message from the handler lookup to the handler's send_message, or
\* to its return when there is no handler or the handler raises
HandlerRun ==
    /\ Running("process_message", "handler")
    /\ LET message == Top.message
           agent_type == message.recipient
       IN  IF ~HasHandler(agent_type, message.message_type)
           THEN /\ frames' = [frames EXCEPT ![Len(frames)].at = "return"]
                /\ UNCHANGED <<bus_agents, uuids>>
           ELSE IF HandlerRaises(message)
           THEN /\ frames' = [frames EXCEPT ![Len(frames)].at = "return",
                                            ![Len(frames)].handler = "raised"]
                /\ bus_agents' = [bus_agents EXCEPT
                                     ![agent_type].status = "error"]
                /\ UNCHANGED uuids
           ELSE /\ frames' =
                       Append([frames EXCEPT ![Len(frames)].at = "sent"],
                              BusFrame(AgentMessage(uuids + 1, agent_type,
                                  Forwards(message).recipient,
                                  Forwards(message).message_type,
                                  Forwards(message).payload)))
                /\ uuids' = uuids + 1
                /\ UNCHANGED bus_agents
    /\ UNCHANGED <<message_history, bus_returned, process_returned,
                   agent_orch>>
    /\ UNCHANGED nonAgentVars

\* the handler's send_message has returned: the handler returns its response
\* and process_message runs _learn_from_interaction, up to its return
HandlerReturn ==
    /\ Running("process_message", "sent")
    /\ LET message == Top.message
           agent_type == message.recipient
           response == HandlerResponse(uuids + 1, agent_type, message)
       IN  IF ReadsLearningData
           THEN /\ frames' = [frames EXCEPT
                                 ![Len(frames)].at = "return",
                                 ![Len(frames)].handler = "returned",
                                 ![Len(frames)].response = <<response>>,
                                 ![Len(frames)].returns = <<response>>]
                /\ bus_agents' = [bus_agents EXCEPT ![agent_type] =
                                     [status |-> "ready",
                                      current_task |-> <<>>]]
           ELSE /\ frames' = [frames EXCEPT
                                 ![Len(frames)].at = "return",
                                 ![Len(frames)].handler = "returned",
                                 ![Len(frames)].response = <<response>>]
                /\ bus_agents' = [bus_agents EXCEPT
                                     ![agent_type].status = "error"]
    /\ uuids' = uuids + 1
    /\ UNCHANGED <<message_history, bus_returned, process_returned,
                   agent_orch>>
    /\ UNCHANGED nonAgentVars

\* process_message returns to send_message, which records a response that is
\* not None
ProcessReturn ==
    /\ Running("process_message", "return")
    /\ process_returned' =
           Append(process_returned,
                  [message      |-> Top.message,
                   handler      |-> Top.handler,
                   response     |-> Top.response,
                   returns      |-> Top.returns,
                   status       |-> bus_agents[Top.message.recipient].status,
                   current_task |->
                       bus_agents[Top.message.recipient].current_task])
    /\ message_history' =
           IF Top.returns # <<>>
           THEN Append(message_history, Top.returns[1])
           ELSE message_history
    /\ frames' = [Pop EXCEPT ![Len(Pop)].at = "return",
                             ![Len(Pop)].returns = Top.message.id]
    /\ UNCHANGED <<bus_agents, uuids, bus_returned, agent_orch>>
    /\ UNCHANGED nonAgentVars

\* send_message returns an id to its caller, a handler or the caller outside
BusReturn ==
    /\ Running("send_message", "return")
    /\ bus_returned' = Append(bus_returned,
                              [message |-> Top.message, id |-> Top.returns])
    /\ frames' = Pop
    /\ agent_orch' =
           IF Len(frames) > 1 THEN agent_orch
           ELSE IF agent_orch.pc = "user"
           THEN [agent_orch EXCEPT !.pc = "collect"]
           ELSE [agent_orch EXCEPT !.pc = "idle"]
    /\ UNCHANGED <<bus_agents, message_history, uuids, process_returned>>
    /\ UNCHANGED nonAgentVars

\* process_user_requirement from the return of the bus: get_system_status
\* asks every registered agent for get_agent_status, then the results are
\* appended to execution_history
CollectResults ==
    /\ agent_orch.pc = "collect"
    /\ agent_orch' =
           IF DOMAIN bus_agents # {} /\ ~ReadsLearningData
           THEN [agent_orch EXCEPT !.pc = "idle", !.raised = @ + 1]
           ELSE [agent_orch EXCEPT !.pc = "idle", !.executions = @ + 1]
    /\ UNCHANGED <<bus_agents, message_history, frames, uuids, bus_returned,
                   process_returned>>
    /\ UNCHANGED nonAgentVars

NextAgents ==
    \/ UserRequirement \/ DirectSend
    \/ BusDeliver \/ BusReturn
    \/ HandlerRun \/ HandlerReturn \/ ProcessReturn
    \/ CollectResults

SpecAgents == InitAgents /\ [][NextAgents]_vars

-----------------------------------------------------------------------------
(* The claims *)

\* C1: at every classification of the grid the selected channel is the one
\* of the decision table read in priority order: research for type research;
\* else fast_track for complexity <= 3.0, risk <= 3.0 and type bug_fix; else
\* mega for complexity >= 7.0 or type migration or infrastructure; else
\* standard.  Complexity 9.0 with type migration gives mega, and complexity
\* 2.0, risk 2.0, type bug_fix gives fast_track.
C1_ChannelFollowsDecisionTable ==
    pc = "selected" =>
        LET c        == classification[1]
            channel  == workflow_channel[1]
            research == c.type = "research"
            fast     == /\ c.complexity_score <= 30
                        /\ c.risk_score <= 30
                        /\ c.type = "bug_fix"
            mega     == \/ c.complexity_score >= 70
                        \/ c.type \in {"migration", "infrastructure"}
        IN  /\ channel \in WorkflowChannel
            /\ channel = "research"   <=> research
            /\ channel = "fast_track" <=> (~research /\ fast)
            /\ channel = "mega"       <=> (~research /\ ~fast /\ mega)
            /\ channel = "standard"   <=> (~research /\ ~fast /\ ~mega)
            /\ (c.complexity_score = 90 /\ c.type = "migration")
                   => channel = "mega"
            /\ (c.complexity_score = 20 /\ c.risk_score = 20
                    /\ c.type = "bug_fix") => channel = "fast_track"

\* a migration of complexity 9.0 has been sent to the mega channel
C1_Witness ==
    /\ pc = "selected"
    /\ classification[1].type = "migration"
    /\ classification[1].complexity_score = 90
    /\ workflow_channel = <<"mega">>

\* the personas of every step of a run on `channel`, in call order
StepPersonas(channel) ==
    [i \in 1..Len(AllSteps(channel)) |-> AllSteps(channel)[i].persona]

\* C2: a run in which a persona call failed is never cut short: when it has
\* returned, every step of the selected channel and of the testing,
\* deployment and monitoring phases was attempted in order, the metrics phase
\* was reached, and each failed step is in the results list with success
\* False.
C2_FailedCallNeverAbortsRun ==
    (/\ pc = "idle"
     /\ ret # <<>>
     /\ \E i \in 1..Len(results) : ~results[i].success)
        => /\ workflow_channel # <<>>
           /\ attempted = StepPersonas(workflow_channel[1])
           /\ exec_phase = "metrics"
           /\ Len(results) = Len(attempted)

\* C3: whatever the persona calls of a run returned, what process_requirement
\* returns carries the results list, with one entry and one boolean success
\* flag for each step the run executed.
C3_RunReturnsResultsList ==
    (pc = "idle" /\ ret # <<>>)
        => /\ "results" \in DOMAIN ret[1]
           /\ Len(ret[1].results) = Len(attempted)
           /\ \A i \in 1..Len(ret[1].results) :
                  /\ ret[1].results[i].persona_name = attempted[i]
                  /\ ret[1].results[i].success \in BOOLEAN

\* the names of a sequence of <<name, text>> pairs, each once, in the order
\* of first occurrence
RECURSIVE FirstOccurrences(_)
FirstOccurrences(calls) ==
    IF calls = <<>> THEN <<>>
    ELSE LET front == FirstOccurrences(SubSeq(calls, 1, Len(calls) - 1))
             name  == calls[Len(calls)][1]
         IN  IF name \in SeqToSet(front) THEN front ELSE Append(front, name)

\* the text of the last call of `name` in a sequence of <<name, text>> pairs
LatestText(calls, name) ==
    calls[CHOOSE i \in 1..Len(calls) :
              /\ calls[i][1] = name
              /\ \A j \in (i + 1)..Len(calls) : calls[j][1] # name][2]

PayloadResponses(request) ==
    IF "workflow_history" \in DOMAIN request.context
    THEN {<<request.context.workflow_history[i][1],
            request.context.workflow_history[i][2].output>> :
              i \in 1..Len(request.context.workflow_history)}
    ELSE {}

\* C5: the context sent with each persona call of a run contains the
\* response text of every earlier successful persona call of that run.
C5_ContextCarriesEarlierResponses ==
    (pc \in {"validate", "route", "target", "metrics"} /\ inflight # <<>>)
        => prior_ok \subseteq PayloadResponses(inflight[1])

\* the categories of the classifier in their fixed order
CategoryOrder ==
    <<<<"bug_fix", BugFixWords>>, <<"compliance", ComplianceWords>>,
      <<"migration", MigrationWords>>,
      <<"infrastructure", InfrastructureWords>>,
      <<"research", ResearchWords>>>>

\* the categories one of whose keywords occurs in the lower-cased text
CategoriesIn(text) ==
    {k \in 1..Len(CategoryOrder) :
        \E w \in 1..Len(CategoryOrder[k][2]) :
            In(CategoryOrder[k][2][w], lower(text))}

\* C6: the type of a classified text is the first category, in the order
\* bug-fix, compliance, migration, infrastructure, research, with a keyword
\* in the lower-cased text, and feature_request when there is none.
C6_TypeIsFirstCategory ==
    (pc \in {"select", "selected"} /\ classification # <<>>) =>
        LET hits == CategoriesIn(user_input)
        IN  IF hits = {}
            THEN classification[1].type = "feature_request"
            ELSE \E k \in hits :
                    /\ \A j \in hits : k <= j
                    /\ classification[1].type = CategoryOrder[k][1]

\* a text with a bug-fix keyword and a later category's keyword was classified
C6_Witness ==
    /\ pc = "select"
    /\ Cardinality(CategoriesIn(user_input)) >= 2
    /\ 1 \in CategoriesIn(user_input)
    /\ lower(user_input) # user_input
    /\ classification[1].type = "bug_fix"

\* C7: all runs of one orchestrator on the same text have the same
\* classification tuple and, once selected, the same channel, whatever their
\* context dicts, the replies to their persona calls and the runs before.
C7_SameTextSameClassification ==
    \A r1 \in seen : \A r2 \in seen :
        r1.input = r2.input
            => /\ r1.classification = r2.classification
               /\ (r1.channel # <<>> /\ r2.channel # <<>>)
                      => r1.channel = r2.channel

\* a second run on the text of a finished run, with another context dict,
\* has selected its channel
C7_Witness ==
    /\ run_count = 2
    /\ workflow_channel # <<>>
    /\ Len(execution_history) = 1
    /\ execution_history[1].input = user_input
    /\ execution_history[1].context # context
    /\ \E r \in seen : r.input = user_input /\ r.channel = workflow_channel

\* C8: a text with none of the type, urgency, size and domain keywords, the
\* empty text included, is classified feature_request, medium, 3.0, 3.0; and
\* every text gets a classification of the declared types.
C8_DefaultClassification ==
    (pc \in {"select", "selected"} /\ classification # <<>>) =>
        LET text == lower(user_input)
            c    == classification[1]
            keywords == BugFixWords \o ComplianceWords \o MigrationWords
                        \o InfrastructureWords \o ResearchWords
                        \o CriticalWords \o HighWords \o LowWords
                        \o SmallWords \o LargeWords \o VeryLargeWords
                        \o DomainWords
        IN  /\ c.type \in RequirementType
            /\ c.priority \in RequirementPriority
            /\ c.complexity_score \in 0..100
            /\ c.risk_score \in 0..100
            /\ (\A k \in 1..Len(keywords) : ~In(keywords[k], text))
                   => /\ c.type = "feature_request"
                      /\ c.priority = "medium"
                      /\ c.complexity_score = 30
                      /\ c.risk_score = 30

\* the empty text was classified
C8_Witness ==
    /\ pc = "select"
    /\ user_input = ""
    /\ classification[1].type = "feature_request"
    /\ classification[1].risk_score = 30

\* C9: the map calculate_all_metrics returns has exactly the four keys
\* functionality, performance, stability and scalability.
C9_FourMetricKeys ==
    pc = "calculated" => SeqToSet(DictKeys(ret[1])) = SeqToSet(MetricTypes)

\* C10 as stated: the score is 5.0 when no number follows the word score, and
\* otherwise the first number that follows the word score.
C10_FirstNumberAfterScore ==
    pc = "parsed" =>
        parsed[1].score =
            IF Search(<<"score">>, reply_text) = <<>> THEN DefaultScore
            ELSE Float(Search(<<"score">>, reply_text)[1])

\* the positions of a text where score or rating, in any case, is followed by
\* one or more colons or white-space characters and then a number
ScorePositions(text) ==
    {i \in 1..Len(text) : GroupAt(ScoreWords, text, i) # <<>>}

\* C10, amended: the score is 5.0 when the text has no place where the word
\* score or rating, in any case, is followed by colons or white space and
\* then a number; otherwise it is the number at the leftmost such place, or
\* 10.0 when that number is above 10.0.
C10_ParsedScore ==
    pc = "parsed" =>
        IF ScorePositions(reply_text) = {}
        THEN parsed[1].score = DefaultScore
        ELSE \E i \in ScorePositions(reply_text) :
                /\ \A j \in ScorePositions(reply_text) : i <= j
                /\ LET number == Float(GroupAt(ScoreWords, reply_text, i)[1])
                   IN  parsed[1].score =
                           IF number.num > 10 * number.den
                           THEN [num |-> 10, den |-> 1] ELSE number

\* a rating above 10.0 was parsed
C10_Witness ==
    /\ pc = "parsed"
    /\ reply_text = "Rating 12"
    /\ parsed[1].score = [num |-> 10, den |-> 1]

\* the requests of the call in progress that went out in `role`
RequestsIn(role) ==
    {i \in DOMAIN step_requests : step_requests[i].role = role}

\* the place of the current step among the steps of the run, counted from 1;
\* in the metrics phase every step is behind
StepNumber ==
    CASE exec_phase = "analysis"   -> step
      [] exec_phase = "core"       -> Len(AnalysisSteps) + step
      [] exec_phase = "testing"    ->
             Len(AnalysisSteps) + Len(CoreSteps(workflow_channel[1])) + step
      [] exec_phase = "deployment" ->
             Len(AnalysisSteps) + Len(CoreSteps(workflow_channel[1]))
             + Len(TestingSteps) + step
      [] exec_phase = "monitoring" ->
             Len(AnalysisSteps) + Len(CoreSteps(workflow_channel[1]))
             + Len(TestingSteps) + Len(DeploymentSteps) + step
      [] exec_phase = "metrics"    -> Len(AllSteps(workflow_channel[1]))

\* C11: nothing is retried.  In a run, the call made for a step sends at most
\* one validation, one routing and one target request, the metrics phase
\* sends at most one request to each metric persona, and the number of calls
\* started is the number of the current step, or one less before its call
\* starts: no step is called a second time, whether its request failed or not.
C11_NothingRetried ==
    run_count > 0 =>
        /\ \A role \in {"validation", "routing", "target"} :
               Cardinality(RequestsIn(role)) <= 1
        /\ \A i, j \in RequestsIn("metric") :
               step_requests[i].persona = step_requests[j].persona => i = j
        /\ Len(attempted) \in
               IF exec_phase # "metrics" /\ pc = "validate" /\ step_requests # <<>>
                  /\ step_requests[Len(step_requests)].reply # <<>>
               THEN {StepNumber - 1}
               ELSE {StepNumber - 1, StepNumber}

\* the target request of the first step failed, and the run has gone on to
\* the first step of the core phase without another request
C11_Witness ==
    /\ pc = "validate"
    /\ exec_phase = "core"
    /\ Len(attempted) = 1
    /\ Len(results) = 1
    /\ \E i \in RequestsIn("target") :
           /\ step_requests[i].reply # <<>>
           /\ ~step_requests[i].reply[1].success

\* C18: in a run of process_requirement at most one persona HTTP request is
\* awaiting its reply at any time: no request of a step, of its validation or
\* routing, or of the metrics phase goes out before the reply to the one
\* before it is in.
C18_OneRequestOutstanding ==
    run_count > 0 => Len(inflight) <= 1

\* the target request of a step is out, after the replies to its validation
\* and routing requests
C18_Witness ==
    /\ pc = "target"
    /\ Len(inflight) = 1
    /\ inflight[1].persona = "requirement_concierge"
    /\ RequestsIn("routing") # {}

\* the personas of the phases that follow the core workflow of every channel
TrailingPersonas ==
    <<"tester", "infrastructure_engineer", "release_engineer",
      "devops_specialist">>

\* the calls of the run made after those of the analysis and the core workflow
TrailingCalls ==
    SubSeq(attempted, Len(AnalysisSteps) + Len(CoreSteps(workflow_channel[1])) + 1,
           Len(attempted))

C16_ResultsAppendOnly ==
    [][\/ results' = results
       \/ /\ Len(results') = Len(results) + 1
          /\ SubSeq(results', 1, Len(results)) = results
          /\ Len(attempted) = Len(results')
          /\ results'[Len(results')].persona_name = attempted[Len(results')]
       \/ /\ pc = "idle"
          /\ pc' = "validate"
          /\ results' = <<>>]_vars

\* three results are recorded, one for each of the first three calls
C16_Witness ==
    /\ Len(results) = 3
    /\ Len(attempted) = 3
    /\ \A i \in 1..3 : results[i].persona_name = attempted[i]

\* the classification a request of the run carries: in the context quoted by
\* a validation or routing prompt, in the context of a target request, in the
\* summary of a metric request
CarriedClassification(role, request) ==
    CASE role \in {"validation", "routing"} -> request.query.context.classification
      [] role = "target" -> request.context.classification
      [] role = "metric" -> request.query.summary.classification

\* what the run derived from the requirement text before its first call
DerivedClassification ==
    _classify_requirement(user_input, WorkflowContext(user_input, context, <<>>))

C17_SameClassificationSeen ==
    (run_count > 0 /\ pc # "idle") =>
        /\ classification # <<>>
        /\ attempted = <<>> => classification = <<DerivedClassification>>
        /\ inflight # <<>> =>
               LET role == step_requests[Len(step_requests)].role
                   seen_by == CarriedClassification(role, inflight[1])
               IN  IF role = "metric"
                   THEN seen_by = ClassificationSummary(classification)
                   ELSE seen_by = ClassificationDict(classification)
        /\ workflow_channel # <<>> =>
               workflow_channel[1] =
                   _select_workflow_channel(classification[1],
                       WorkflowContext(user_input, context, classification))

\* C17: the classification of a run is derived once, from the requirement
\* text, before the first persona call and is never changed afterwards: every
\* request of the run, those of the metrics phase included, carries that
\* classification, the channel is the one selected from it, and no step of
\* the run, whatever the reply, changes the classification or the channel
\* once selected.
C17_ClassificationFixed ==
    /\ []C17_SameClassificationSeen
    /\ [][pc # "idle" =>
              /\ classification' = classification
              /\ workflow_channel # <<>> => workflow_channel' = workflow_channel]_vars

\* a metric request of a mega run carries the classification its first
\* request carried
C17_Witness ==
    /\ pc = "metrics"
    /\ inflight # <<>>
    /\ step = Len(MetricTypes)
    /\ workflow_channel = <<"mega">>
    /\ inflight[1].query.summary.classification
           = ClassificationSummary(classification)

\* the personas a run on `channel` calls, in order
ChannelCalls(channel) ==
    <<"requirement_concierge">>
    \o (CASE channel = "fast_track" -> <<"developer", "tester">>
          [] channel = "standard" ->
                 <<"risk_assessor", "team_manager", "developer", "tester",
                   "operations">>
          [] channel = "mega" ->
                 <<"program_manager", "mind_engine_coordinator",
                   "risk_assessor", "team_manager", "developer", "tester",
                   "operations">>
          [] channel = "research" -> <<"developer", "mind_engine_coordinator">>)
    \o <<"tester", "infrastructure_engineer", "release_engineer",
         "devops_specialist">>

\* the number of results a completed run on `channel` records
ChannelResults(channel) ==
    CASE channel = "fast_track" -> 7
      [] channel = "standard"   -> 10
      [] channel = "mega"       -> 12
      [] channel = "research"   -> 7

\* C19: every channel is a fixed sequence of calls.  Before the channel is
\* selected the only call is that of requirement_concierge; afterwards the
\* calls made so far are the first calls of the channel's sequence, the same
\* whatever the replies; and a run that completed recorded one result for
\* each persona of the sequence, in order: 7 on fast_track, 10 on standard,
\* 12 on mega and 7 on research.
C19_FixedCallSequence ==
    run_count > 0 =>
        /\ workflow_channel = <<>> =>
               attempted \in {<<>>, <<"requirement_concierge">>}
        /\ workflow_channel # <<>> =>
               LET calls == ChannelCalls(workflow_channel[1])
               IN  /\ Len(attempted) <= Len(calls)
                   /\ attempted = SubSeq(calls, 1, Len(attempted))
                   /\ (pc = "idle" /\ ret # <<>> /\ ret[1].success) =>
                          /\ Len(results) = ChannelResults(workflow_channel[1])
                          /\ [k \in 1..Len(results) |-> results[k].persona_name]
                                 = calls

\* a run on the mega channel completed with its twelve results
C19_Witness ==
    /\ pc = "idle"
    /\ ret # <<>>
    /\ ret[1].success
    /\ workflow_channel = <<"mega">>
    /\ Len(ret[1].results) = 12

\* the call made for the latest step has returned to its phase
CallReturned == Len(results) = Len(attempted)

\* C20: validate_and_route_request gates on validation.  The requests of a
\* step are, in this order, one to interface_validator, one to queue_manager
\* and one to the target.  When the validator's call failed nothing more is
\* requested and the step returns at once with that failure as its result.
\* When it succeeded, queue_manager is asked and then, whether queue_manager
\* succeeded or failed, the target; the step then returns what the target's
\* call returned.
C20_ValidationGate ==
    (run_count > 0 /\ RequestsIn("validation") # {}) =>
        LET n == Len(step_requests)
            validation == step_requests[1].reply
        IN  /\ n <= 3
            /\ [k \in 1..n |-> step_requests[k].role]
                   = SubSeq(<<"validation", "routing", "target">>, 1, n)
            /\ [k \in 1..n |-> step_requests[k].persona]
                   = SubSeq(<<"interface_validator", "queue_manager",
                              attempted[Len(attempted)]>>, 1, n)
            /\ n >= 2 => validation # <<>> /\ validation[1].success
            /\ n = 3 => step_requests[2].reply # <<>>
            /\ (validation # <<>> /\ ~validation[1].success) =>
                   /\ n = 1
                   /\ CallReturned
                   /\ ~results[Len(results)].success
                   /\ results[Len(results)].output_data.error
                          = validation[1].error
            /\ (validation # <<>> /\ validation[1].success /\ CallReturned) =>
                   /\ n = 3
                   /\ step_requests[3].reply # <<>>
                   /\ ~step_requests[3].reply[1].success
                   /\ ~results[Len(results)].success
                   /\ results[Len(results)].output_data.error
                          = step_requests[3].reply[1].error
            /\ (pc = "idle" /\ ~CallReturned) =>
                   /\ n = 3
                   /\ step_requests[3].reply # <<>>
                   /\ step_requests[3].reply[1].success

\* the validator passed the request, queue_manager's call failed, and the
\* target was called and its failure is the result of the step
C20_Witness ==
    /\ Len(step_requests) = 3
    /\ step_requests[1].reply[1].success
    /\ ~step_requests[2].reply[1].success
    /\ step_requests[3].reply # <<>>
    /\ CallReturned
    /\ ~results[Len(results)].success

\* the development phase has returned its dict and the integration phase,
\* which is given it, is running
DevelopmentReturned ==
    sdlc_pc \in {"integration_pull", "integration", "integration_log"}

\* what the phase records for a task: the dict the task returned, or the
\* text of the exception it raised under the key error
RecordedFor(task) ==
    IF task.pc = "raised"
    THEN [error |-> task.outcome[1].error]
    ELSE [development |-> task.dev_result[1],
          testing     |-> task.test_result[1],
          team_name   |-> task.team_name]

C12_PhaseReturnsAfterAllTeams ==
    /\ sdlc_pc # "failed"
    /\ sdlc_pc = "development" => phase_results = <<>>
    /\ DevelopmentReturned =>
           LET teams == ConfiguredTeams(team_config)
           IN  /\ \A i \in DOMAIN tasks :
                      /\ tasks[i].pc \in {"done", "raised"}
                      /\ tasks[i].call = <<>>
               /\ phase_results # <<>>
               /\ Len(phase_results[1]) = Len(teams)
               /\ \A i \in DOMAIN teams :
                      /\ phase_results[1][i][1] = teams[i] \o "_team"
                      /\ phase_results[1][i][2] = RecordedFor(tasks[i])
    /\ sdlc_pc \in {"integration", "integration_log"} /\ inflight # <<>>
           /\ inflight[1].persona = "integration-team-leader"
           => inflight[1].context.development_results = phase_results[1]

\* C12: the tasks of the teams run concurrently behind a barrier.  The
\* development phase returns only when every task has returned or raised,
\* and never raises itself; its dict has exactly one entry for each
\* configured team, under the key <team>_team and in the order of the teams,
\* which is the dict the team's own task returned or, for a task that
\* raised, an error entry; a step of one task, its raising included, leaves
\* every other task as it was; and the integration phase follows with the
\* dict of the development phase in its context.
C12_FanInBarrier ==
    /\ []C12_PhaseReturnsAfterAllTeams
    /\ [][\A i, j \in DOMAIN tasks :
              (i # j /\ tasks'[i] # tasks[i]) => tasks'[j] = tasks[j]]_vars

\* both teams of a configuration raised, each is recorded as an error
\* entry, and the request of the integration phase is out
C12_Witness ==
    /\ sdlc_pc = "integration"
    /\ inflight # <<>>
    /\ Len(tasks) = 2
    /\ \A i \in DOMAIN tasks : tasks[i].pc = "raised"
    /\ \A i \in 1..2 : "error" \in DOMAIN phase_results[1][i][2]

\* the gathered tasks whose call in progress read the context manager at its
\* request and will write to it at its reply
Holders == {i \in DOMAIN tasks : tasks[i].holds_manager}

\* C13: the context accumulator is never accessed concurrently.  Under every
\* interleaving of the gathered team tasks no two tasks are at the same time
\* inside a call that reads and writes the accumulator, so no write of one
\* call falls between the read and the write of another; the calls of the
\* tasks are made without the accumulator, which stays as it was created.
C13_AccumulatorNeverShared ==
    sdlc_pc # "idle" =>
        /\ Cardinality(Holders) <= 1
        /\ Holders # {} => inflight = <<>>
        /\ cm = <<NewContextManager>>

\* the developer calls of two teams are out at the same time
C13_Witness ==
    /\ Len(tasks) >= 2
    /\ tasks[1].call # <<>>
    /\ tasks[2].call # <<>>
    /\ tasks[1].call[1].persona = "developer"
    /\ tasks[2].call[1].persona = "developer"
    /\ Holders = {}

\* C14: accumulated persona outputs belong to one run.  When a workflow
\* starts on an orchestrator its accumulator is empty, and the context of a
\* persona call carries, as workflow history, outputs of personas processed
\* earlier in the same run only.
C14_AccumulatorOwnedByOneRun ==
    /\ comm_pc = "store" => cm[1].persona_outputs = <<>>
    /\ (comm_pc = "persona" /\ inflight # <<>>) =>
           \A k \in DOMAIN inflight[1].context.workflow_history :
               DictHas(persona_results,
                       inflight[1].context.workflow_history[k][1])

\* C21: the classifier followed by the selector sends a text to fast_track
\* exactly when it has a bug-fix keyword, none of patient, financial and
\* security, and a complexity score of at most 3.0; to research exactly when
\* it has a research keyword and no bug-fix, compliance, migration or
\* infrastructure keyword; a text with a migration keyword and no bug-fix or
\* compliance keyword goes to mega; a text with no keyword of any list goes
\* to standard; and each sample requirement goes to the channel it is named
\* after.  Keywords are looked for in the lower-cased text.
C21_RoutingByText ==
    pc = "selected" =>
        LET text    == lower(user_input)
            channel == workflow_channel[1]
            has(words) == \E k \in 1..Len(words) : In(words[k], text)
            bug_fix        == has(<<"fix", "bug", "error", "broken">>)
            compliance     == has(<<"compliance", "hipaa", "gdpr", "audit">>)
            migration      == has(<<"migrate", "migration", "upgrade">>)
            infrastructure == has(<<"infrastructure", "deployment", "server">>)
            research       == has(<<"research", "poc", "investigate">>)
            domain         == has(<<"patient", "financial", "security">>)
            urgency == has(<<"critical", "urgent", "emergency", "high",
                             "important", "soon", "low", "nice", "future">>)
            size    == has(<<"simple", "quick", "small", "complex", "large",
                             "enterprise", "platform", "microservices",
                             "architecture">>)
        IN  /\ channel = "fast_track"
                <=> (bug_fix /\ ~domain
                        /\ classification[1].complexity_score <= 30)
            /\ channel = "research"
                <=> (research /\ ~bug_fix /\ ~compliance /\ ~migration
                        /\ ~infrastructure)
            /\ (migration /\ ~bug_fix /\ ~compliance) => channel = "mega"
            /\ ~(bug_fix \/ compliance \/ migration \/ infrastructure
                    \/ research \/ domain \/ urgency \/ size)
                   => channel = "standard"
            /\ \A k \in 1..Len(SampleRequirements) :
                    user_input = SampleRequirements[k][2]
                        => channel = SampleRequirements[k][1]

\* a text with a bug-fix keyword in capitals and the word patient was kept
\* off the fast track
C21_Witness ==
    /\ pc = "selected"
    /\ user_input = "Fix patient"
    /\ classification[1].type = "bug_fix"
    /\ classification[1].complexity_score = 30
    /\ workflow_channel = <<"standard">>

\* the urgency groups in the order they are tried
UrgencyOrder ==
    <<<<"critical", <<"critical", "urgent", "emergency">>>>,
      <<"high", <<"high", "important", "soon">>>>,
      <<"low", <<"low", "nice", "future">>>>>>

\* the urgency groups one of whose words occurs in the lower-cased text
UrgenciesIn(text) ==
    {k \in 1..Len(UrgencyOrder) :
        \E w \in 1..Len(UrgencyOrder[k][2]) :
            In(UrgencyOrder[k][2][w], lower(text))}

\* C22: the priority of a classified text is the earliest group, in the
\* order critical, high, low, with a word in the lower-cased text, and
\* medium when no urgency word occurs.
C22_PriorityIsFirstGroup ==
    (pc \in {"select", "selected"} /\ classification # <<>>) =>
        LET hits == UrgenciesIn(user_input)
        IN  IF hits = {}
            THEN classification[1].priority = "medium"
            ELSE \E k \in hits :
                    /\ \A j \in hits : k <= j
                    /\ classification[1].priority = UrgencyOrder[k][1]

\* a text with a word of the high group and a word of the low group was
\* classified high
C22_Witness ==
    /\ pc = "select"
    /\ UrgenciesIn(user_input) = {2, 3}
    /\ classification[1].priority = "high"

\* C23: complexity_score is 2.0 with a small-size word, else 8.0 with a
\* large-size word, else 9.0 with microservices, migration or architecture,
\* else 3.0; risk_score is 8.0 for type compliance, else 7.0 with patient,
\* financial or security, else 2.0 for type bug_fix, else 3.0.
C23_LiteralScores ==
    (pc \in {"select", "selected"} /\ classification # <<>>) =>
        LET text == lower(user_input)
            c    == classification[1]
            has(words) == \E k \in 1..Len(words) : In(words[k], text)
        IN  /\ c.complexity_score =
                  (IF has(<<"simple", "quick", "small">>) THEN 20
                   ELSE IF has(<<"complex", "large", "enterprise",
                                 "platform">>) THEN 80
                   ELSE IF has(<<"microservices", "migration",
                                 "architecture">>) THEN 90
                   ELSE 30)
            /\ c.risk_score =
                  (IF c.type = "compliance" THEN 80
                   ELSE IF has(<<"patient", "financial", "security">>) THEN 70
                   ELSE IF c.type = "bug_fix" THEN 20
                   ELSE 30)
            /\ c.complexity_score \in {20, 30, 80, 90}
            /\ c.risk_score \in {20, 30, 70, 80}

\* a text with a small-size word and a large-size word got complexity 2.0
C23_Witness ==
    /\ pc = "select"
    /\ In("simple", lower(user_input))
    /\ In("complex", lower(user_input))
    /\ classification[1].complexity_score = 20

\* C24: call_persona never raises; a call returns success exactly when the
\* HTTP status was 200 and the body was read, and has then added exactly one
\* entry for its persona to the context manager it was given; a call that
\* returns failure leaves the context manager as it was.
C24_FailureLeavesAccumulator ==
    /\ [](pc # "raised")
    /\ [][(pc = "client" /\ inflight # <<>> /\ inflight' = Tail(inflight)) =>
            LET persona_name == inflight[1].persona
                success == ok_calls' # ok_calls
                before  == cm[1]
                after   == cm'[1]
            IN  /\ success <=> last_reply'[1].kind = "200"
                /\ success =>
                      /\ Len(after.context_history)
                             = Len(before.context_history) + 1
                      /\ after.context_history[Len(after.context_history)]
                             .persona = persona_name
                      /\ DictHas(after.persona_outputs, persona_name)
                      /\ \A k \in 1..Len(before.persona_outputs) :
                             before.persona_outputs[k][1] # persona_name
                                 => after.persona_outputs[k]
                                        = before.persona_outputs[k]
                /\ ~success => cm' = cm]_vars

\* C25: the score _parse_metric_response returns lies between 0 and 10
\* inclusive for every reply text, and is 10.0 when the number parsed is
\* above 10.
C25_ScoreInRange ==
    pc = "parsed" =>
        LET score == parsed[1].score
            at    == ScorePositions(reply_text)
        IN  /\ score.den > 0
            /\ 0 <= score.num
            /\ score.num <= 10 * score.den
            /\ \A i \in at :
                   (\A j \in at : i <= j) =>
                       LET number == Float(GroupAt(ScoreWords, reply_text, i)[1])
                       IN  number.num > 10 * number.den
                               => score = [num |-> 10, den |-> 1]

\* a score of 127.5 was parsed and capped
C25_Witness ==
    /\ pc = "parsed"
    /\ reply_text = "score: 127.5"
    /\ parsed[1].score = [num |-> 10, den |-> 1]

\* the personas whose result of the run in progress has a `key` entry
PersonasWith(key) ==
    {i \in 1..Len(persona_results) : key \in DOMAIN persona_results[i][2]}

\* C26: a workflow processes the personas in the order requirement-concierge,
\* program-manager, developer, tester; the understanding of a persona is
\* asked for and verified only when a persona before it left a non-empty
\* output; a handoff is facilitated only after that persona's verification
\* returned verified; and every returned result has
\* handoffs_completed <= verifications_passed <= personas_processed - 1.
C26_VerifiedBeforeHandoff ==
    /\ DictKeys(persona_results)
           = SubSeq(<<"requirement-concierge", "program-manager", "developer",
                      "tester">>, 1, Len(persona_results))
    /\ comm_pc \in {"pull", "persona"} => Len(persona_results) = persona_index - 1
    /\ comm_pc \in {"log", "understanding", "verify", "handoff"}
           => Len(persona_results) = persona_index
    /\ comm_pc \in {"understanding", "verify", "handoff"}
           => /\ persona_index > 1
              /\ previous_output # <<>>
              /\ previous_output[1] # ""
              /\ previous_output[1]
                     = ResponseOf(persona_results[persona_index - 1][2])
    /\ comm_pc = "handoff"
           => /\ persona_index \in PersonasWith("verification")
              /\ persona_results[persona_index][2].verification.verified
    /\ \A i \in PersonasWith("verification") :
           /\ i > 1
           /\ ResponseOf(persona_results[i - 1][2]) # ""
    /\ \A i \in PersonasWith("handoff") :
           /\ i \in PersonasWith("verification")
           /\ persona_results[i][2].verification.verified
    /\ comm_ret # <<>>
           => /\ comm_ret[1].personas_processed = 4
              /\ comm_ret[1].handoffs_completed
                     <= comm_ret[1].verifications_passed
              /\ comm_ret[1].verifications_passed
                     <= comm_ret[1].personas_processed - 1

\* a workflow returned with three personas processed after a predecessor with
\* output, two of them verified and one of these handed over
C26_Witness ==
    /\ comm_pc = "idle"
    /\ comm_ret # <<>>
    /\ comm_ret[1].personas_processed = 4
    /\ comm_ret[1].verifications_passed = 2
    /\ comm_ret[1].handoffs_completed = 1
    /\ Cardinality(PersonasWith("verification")) = 3

\* the eight phases in the order the workflow is to run them
EightPhases ==
    <<"requirements_analysis", "solution_architecture",
      "design_specification", "multi_team_coordination", "development",
      "integration", "quality_assurance", "deployment">>

\* the phase the workflow is in, <<>> when it is in none
PhaseRunning ==
    IF sdlc_pc = "development" THEN <<"development">>
    ELSE IF InRound THEN <<CurrentRound.phase>>
    ELSE <<>>

\* in a sequence of calls every call to a workflow persona comes directly
\* after a context pull for that persona and, once another call follows it,
\* directly before an interpretation log
PullPersonaLog(calls) ==
    \A k \in DOMAIN calls :
        calls[k].role = "persona"
            => /\ k > 1
               /\ calls[k - 1] = [role |-> "pull",
                                  persona |-> calls[k].persona]
               /\ k < Len(calls) => calls[k + 1].role = "log"

\* a sequence of calls that has ended does not end with a call to a workflow
\* persona
LogNotPending(calls) ==
    calls # <<>> => calls[Len(calls)].role # "persona"

MessageChain ==
    <<"requirement_analysis", "template_selection", "solution_planning",
      "execution_request", "quality_report">>

\* the messages recorded since the latest call from outside the agents began
SinceCall == SubSeq(message_history, agent_orch.mark + 1, Len(message_history))

\* the calls of process_message, in progress or returned, for a message
ProcessedBy(message) ==
    {k \in DOMAIN frames :
        frames[k].fn = "process_message" /\ frames[k].message = message}
    \cup {-k : k \in {j \in DOMAIN process_returned :
                          process_returned[j].message = message}}

\* C28: with the agents initialized, the messages message_history gains
\* during one process_user_requirement call are at every moment the first
\* ones of the chain REQUIREMENT_ANALYSIS, TEMPLATE_SELECTION,
\* SOLUTION_PLANNING, EXECUTION_REQUEST, QUALITY_REPORT, each after the first
\* sent by the agent that received the one before it while that agent is
\* still processing it, and all five are there when the call of the bus has
\* returned.  Every send_message call on a bus, initialized or not, that has
\* returned for a message whose recipient is not registered returned the
\* empty id, the message is in message_history and no process_message call
\* was made for it; for a registered recipient it returned the message's id.
C28_ChainRecorded ==
    /\ agent_orch.pc \in {"user", "collect"} /\ DOMAIN bus_agents # {}
           => /\ Len(SinceCall) <= Len(MessageChain)
              /\ \A k \in DOMAIN SinceCall :
                     /\ SinceCall[k].message_type = MessageChain[k]
                     /\ k > 1 =>
                            SinceCall[k].sender = SinceCall[k - 1].recipient
              /\ agent_orch.pc = "collect"
                     => Len(SinceCall) = Len(MessageChain)
    /\ \A k \in DOMAIN bus_returned :
           LET sent == bus_returned[k]
           IN  /\ \E j \in DOMAIN message_history :
                      message_history[j] = sent.message
               /\ IF sent.message.recipient \in DOMAIN bus_agents
                  THEN sent.id = sent.message.id
                  ELSE /\ sent.id = EmptyId
                       /\ ProcessedBy(sent.message) = {}

\* a message sent from inside a call of the bus is sent by the agent that is
\* processing a message, and in a user requirement's chain that message is
\* the one recorded last
C28_SentByHandler ==
    (/\ Running("send_message", "start")
     /\ Len(frames) > 1
     /\ message_history' = Append(message_history, Top.message))
        => LET handling == frames[Len(frames) - 1]
           IN  /\ handling.fn = "process_message"
               /\ handling.at = "sent"
               /\ Top.message.sender = handling.message.recipient
               /\ HasHandler(handling.message.recipient,
                             handling.message.message_type)
               /\ handling.message = message_history[Len(message_history)]

C28_MessageChain ==
    /\ []C28_ChainRecorded
    /\ [][C28_SentByHandler]_vars

\* a user requirement went through the four agents and the QUALITY_REPORT
\* of the execution agent, addressed to the quality assurance agent nobody
\* registered, is the fifth message recorded and got the empty id
C28_Witness ==
    /\ agent_orch.pc = "collect"
    /\ DOMAIN bus_agents = InitializedAgents
    /\ Len(SinceCall) = 5
    /\ SinceCall[5].message_type = "quality_report"
    /\ \E k \in DOMAIN bus_returned :
           /\ bus_returned[k].message = SinceCall[5]
           /\ bus_returned[k].id = EmptyId

\* the agents a process_message call is in progress for
Processing ==
    {frames[k].message.recipient :
        k \in {j \in DOMAIN frames : frames[j].fn = "process_message"}}

\* C29: an agent's status is 'active' only while a process_message call of
\* it is in progress.  Every process_message call that has returned for a
\* message whose handler exists and did not raise left the status 'ready'
\* and current_task None and returned the response of the handler, and no
\* process_message call that has returned left the status 'active'.
C29_ReadyAfterProcessing ==
    /\ \A a \in DOMAIN bus_agents :
           bus_agents[a].status = "active" => a \in Processing
    /\ \A k \in DOMAIN process_returned :
           LET call == process_returned[k]
           IN  /\ call.handler = "returned"
                      => /\ call.status = "ready"
                         /\ call.current_task = <<>>
                         /\ call.response # <<>>
                         /\ call.returns = call.response
               /\ call.status # "active"

\* a process_requirement call returns in this step
RunReturns == pc # "idle" /\ pc' = "idle"

\* every entry of execution_history is a dict returned with success True,
\* the entries are in the order of their calls, no call has two, and the
\* call that returned last has an entry exactly if it returned success True
C30_HistoryOfSuccesses ==
    /\ Len(execution_history) <= run_count
    /\ \A k \in DOMAIN execution_history :
           /\ execution_history[k].success
           /\ execution_history[k].workflow_id \in 1..run_count
           /\ \A j \in DOMAIN execution_history :
                  j < k => execution_history[j].workflow_id
                               < execution_history[k].workflow_id
    /\ pc = "idle" /\ ret # <<>>
           => IF ret[1].success
              THEN /\ execution_history # <<>>
                   /\ execution_history[Len(execution_history)]
                          = HistoryEntry(ret[1])
                   /\ ret[1].workflow_id = run_count
              ELSE \A k \in DOMAIN execution_history :
                       execution_history[k].workflow_id # run_count

\* C30: execution_history of one orchestrator holds exactly one entry for
\* each process_requirement call that returned success True, in the order of
\* the calls: it changes only in the step a call returns success True, and
\* then by the returned dict appended at its end; a call that returns
\* success False, and every other step, leaves it as it was.
C30_OneEntryPerSuccess ==
    /\ []C30_HistoryOfSuccesses
    /\ [][IF RunReturns /\ ret'[1].success
          THEN execution_history'
                   = Append(execution_history, HistoryEntry(ret'[1]))
          ELSE execution_history' = execution_history]_vars

\* the first call returned success True and has its entry, the second
\* returned success False and the history still holds that entry alone
C30_Witness ==
    /\ pc = "idle"
    /\ run_count = 2
    /\ ret # <<>>
    /\ ~ret[1].success
    /\ Len(execution_history) = 1
    /\ execution_history[1].workflow_id = 1

=============================================================================
